---- MODULE Spec2Model ----
(***************************************************************************)
(* Evidence-pyramid classification, JBI critical appraisal and the batch   *)
(* pipeline of the EBM PICO research skill                                 *)
(* (evidence_pyramid_classifier.py, jbi_checklist.py, ebm_analyzer.py).    *)
(*                                                                         *)
(* Python values are tagged records: None, str, int, list, and the pseudo  *)
(* value "raise" for a call that ends by raising an exception.  A dict is  *)
(* a function whose domain is the set of keys present.  Texts are TLA+     *)
(* strings; lower-casing and the substring test work on their characters.  *)
(***************************************************************************)
EXTENDS Integers, Sequences, FiniteSets, TLC

VARIABLES
  article,     \* the article dict a caller passes to the public operations
  calls,       \* the operations called on article so far, in call order
  exc,         \* the exception the last call ended with, "none" otherwise
  entry,       \* the entry point of the batch run
  batch,       \* pubmed_results: the article dicts of the batch run
  pc,          \* position of the batch run
  idx,         \* loop position inside _classify_articles/_assess_articles
  classified,  \* list built by _classify_articles (positions in batch)
  assessed,    \* list built by _assess_articles (positions in batch)
  summary,     \* result of _generate_summary
  result       \* the latest call of a scoring or aggregation operation:
               \* its name, its arguments and the value it returned

vars == <<article, calls, exc,
          entry, batch, pc, idx, classified, assessed, summary, result>>

unitVars == <<article, calls>>
batchVars == <<entry, batch, pc, idx, classified, assessed, summary>>

-----------------------------------------------------------------------------
(* Bounds of the model *)

MaxTags == 2
MaxCalls == 2
MaxBatch == 2
MaxRanked == 3

-----------------------------------------------------------------------------
(* Python values *)

PyNone == [t |-> "NoneType"]
PyStr(s) == [t |-> "str", v |-> s]
PyInt(n) == [t |-> "int", v |-> n]
PyList(l) == [t |-> "list", v |-> l]
Raise(e) == [t |-> "raise", v |-> e]

\* result before any scoring or aggregation call
NoCall == [op |-> "none"]

IsNone(x) == x.t = "NoneType"
IsRaise(x) == x.t = "raise"

\* dict.get(key, default)
get(d, key, default) == IF key \in DOMAIN d THEN d[key] ELSE default

\* d[key] = value
setitem(d, key, value) == (key :> value) @@ d

\* d.pop(key, default), the dict it leaves
delitem(d, key) == [k \in (DOMAIN d) \ {key} |-> d[k]]

\* the lower-case letter of each upper-case letter
LowerTable ==
  [A |-> "a", B |-> "b", C |-> "c", D |-> "d", E |-> "e", F |-> "f",
   G |-> "g", H |-> "h", I |-> "i", J |-> "j", K |-> "k", L |-> "l",
   M |-> "m", N |-> "n", O |-> "o", P |-> "p", Q |-> "q", R |-> "r",
   S |-> "s", T |-> "t", U |-> "u", V |-> "v", W |-> "w", X |-> "x",
   Y |-> "y", Z |-> "z"]

UpperLetters == DOMAIN LowerTable

\* str.lower() on one character
LowerChar(c) == IF c \in UpperLetters THEN LowerTable[c] ELSE c

\* the characters lo..hi of s in lower case, the range halved at each step
RECURSIVE LowerFrom(_, _, _)
LowerFrom(s, lo, hi) ==
  IF lo > hi THEN ""
  ELSE IF lo = hi THEN LowerChar(SubSeq(s, lo, lo))
  ELSE LET mid == (lo + hi) \div 2
       IN LowerFrom(s, lo, mid) \o LowerFrom(s, mid + 1, hi)

\* str.lower()
lower(s) == LowerFrom(s, 1, Len(s))

\* kw in text (substring test)
Contains(kw, text) ==
  \E i \in 1..(Len(text) - Len(kw) + 1) : SubSeq(text, i, i + Len(kw) - 1) = kw

\* any(kw in text for kw in keywords)
AnyIn(keywords, text) ==
  \E k \in 1..Len(keywords) : Contains(keywords[k], text)

\* f"{value}" for the values a title or abstract field holds
Format(x) == IF IsNone(x) THEN "None" ELSE x.v

-----------------------------------------------------------------------------
(* evidence_pyramid_classifier.py *)

EVIDENCE_LEVELS ==
  [l \in 1..6 |->
     CASE l = 1 -> "Systematic Review & Meta-Analysis"
       [] l = 2 -> "Randomized Controlled Trial"
       [] l = 3 -> "Cohort Study"
       [] l = 4 -> "Case-Control Study"
       [] l = 5 -> "Case Series / Case Report"
       [] l = 6 -> "Animal Research / In Vitro"]

\* the dict in insertion order: <<level, type_list>>
PUBLICATION_TYPE_MAP ==
  << <<1, <<"meta-analysis", "systematic review",
            "research support, u.s. gov't">> >>,
     <<2, <<"randomized controlled trial", "clinical trial",
            "clinical trial, phase i", "clinical trial, phase ii",
            "clinical trial, phase iii", "clinical trial, phase iv",
            "controlled clinical trial", "pragmatic clinical trial">> >>,
     <<3, <<"cohort study", "follow-up study", "longitudinal studies",
            "observational study", "prospective study">> >>,
     <<4, <<"case-control studies", "retrospective studies",
            "case-control study">> >>,
     <<5, <<"case reports", "case series">> >>,
     <<6, <<"animal experiment", "in vitro", "animals", "animal model">> >> >>

\* the keyword lists of _classify_by_text, in the order of its if statements
TEXT_KEYWORDS ==
  << <<1, <<"meta-analysis", "meta analysis", "systematic review",
            "systematic literature review", "pooled analysis">> >>,
     <<2, <<"randomized", "randomised", "randomized controlled trial",
            "rct", "double-blind", "double blind", "single-blind",
            "single blind", "placebo-controlled">> >>,
     <<3, <<"cohort", "prospective study", "prospective follow-up",
            "longitudinal", "observational cohort">> >>,
     <<4, <<"case-control", "case control", "retrospective cohort">> >>,
     <<5, <<"case report", "case series", "single case">> >>,
     <<6, <<"animal", "mouse", "rat", "in vitro", "cell line",
            "experimental model", "animal model">> >> >>

\* for level, type_list in table: first level with a keyword in any text
RECURSIVE FirstLevel(_, _, _)
FirstLevel(table, texts, k) ==
  IF k > Len(table) THEN PyNone
  ELSE IF \E j \in 1..Len(table[k][2]) :
            \E p \in 1..Len(texts) : Contains(table[k][2][j], texts[p])
       THEN PyInt(table[k][1])
       ELSE FirstLevel(table, texts, k + 1)

\* variant: the loops swapped, the first tag that matches decides
RECURSIVE FirstTagLevel(_, _)
FirstTagLevel(tags, p) ==
  IF p > Len(tags) THEN PyNone
  ELSE LET hit == FirstLevel(PUBLICATION_TYPE_MAP, <<tags[p]>>, 1)
       IN IF ~IsNone(hit) THEN hit ELSE FirstTagLevel(tags, p + 1)

_classify_by_publication_type_tag_first(pub_types) ==
  IF pub_types.t # "list" THEN Raise("TypeError")
  ELSE IF \E p \in 1..Len(pub_types.v) : pub_types.v[p].t # "str"
       THEN Raise("AttributeError")
       ELSE FirstTagLevel([p \in 1..Len(pub_types.v) |->
                             lower(pub_types.v[p].v)], 1)

_classify_by_publication_type(pub_types) ==
  IF pub_types.t # "list" THEN Raise("TypeError")
  ELSE IF \E p \in 1..Len(pub_types.v) : pub_types.v[p].t # "str"
       THEN Raise("AttributeError")
       ELSE LET pub_types_lower ==
                  [p \in 1..Len(pub_types.v) |-> lower(pub_types.v[p].v)]
            IN FirstLevel(PUBLICATION_TYPE_MAP, pub_types_lower, 1)

\* variant: the case-control keywords are tried before the cohort keywords
_classify_by_text_specific_first(title, abstract) ==
  LET text == lower(Format(title) \o " " \o Format(abstract))
      table == <<TEXT_KEYWORDS[1], TEXT_KEYWORDS[2], TEXT_KEYWORDS[4],
                 TEXT_KEYWORDS[3], TEXT_KEYWORDS[5], TEXT_KEYWORDS[6]>>
      hit == FirstLevel(table, <<text>>, 1)
  IN IF ~IsNone(hit) THEN hit
     ELSE IF Contains("clinical trial", text) THEN PyInt(2)
          ELSE PyNone

\* variant: "clinical trial" is tried before the animal/in-vitro keywords
_classify_by_text_trial_first(title, abstract) ==
  LET text == lower(Format(title) \o " " \o Format(abstract))
      hit == FirstLevel(SubSeq(TEXT_KEYWORDS, 1, 5), <<text>>, 1)
  IN IF ~IsNone(hit) THEN hit
     ELSE IF Contains("clinical trial", text) THEN PyInt(2)
          ELSE FirstLevel(SubSeq(TEXT_KEYWORDS, 6, 6), <<text>>, 1)

_classify_by_text(title, abstract) ==
  LET text == lower(Format(title) \o " " \o Format(abstract))
      hit == FirstLevel(TEXT_KEYWORDS, <<text>>, 1)
  IN IF ~IsNone(hit) THEN hit
     ELSE IF Contains("clinical trial", text) THEN PyInt(2)
          ELSE PyNone

\* variant: a level already on the record is kept
classify_article_keeps_level(a) ==
  LET pub_types0 == get(a, "pubmedPublicationTypes", PyList(<<>>))
      pub_types == IF pub_types0.t = "str" THEN PyList(<<pub_types0>>)
                   ELSE pub_types0
      byType == _classify_by_publication_type(pub_types)
  IN IF IsRaise(byType) THEN byType
     ELSE IF "evidence_level" \in DOMAIN a THEN [t |-> "dict", v |-> a]
     ELSE LET byText == IF IsNone(byType)
                        THEN _classify_by_text(get(a, "title", PyStr("")),
                                               get(a, "abstract", PyStr("")))
                        ELSE byType
              evidence_level == IF IsNone(byText) THEN PyInt(6) ELSE byText
          IN [t |-> "dict",
              v |-> setitem(setitem(a, "evidence_level", evidence_level),
                            "evidence_level_name",
                            PyStr(EVIDENCE_LEVELS[evidence_level.v]))]

\* variant: article.pop('pubmedPublicationTypes', []) instead of article.get
classify_article_pop(a) ==
  LET pub_types0 == get(a, "pubmedPublicationTypes", PyList(<<>>))
      pub_types == IF pub_types0.t = "str" THEN PyList(<<pub_types0>>)
                   ELSE pub_types0
      byType == _classify_by_publication_type(pub_types)
      popped == delitem(a, "pubmedPublicationTypes")
  IN IF IsRaise(byType) THEN byType
     ELSE LET byText == IF IsNone(byType)
                        THEN _classify_by_text(get(a, "title", PyStr("")),
                                               get(a, "abstract", PyStr("")))
                        ELSE byType
              evidence_level == IF IsNone(byText) THEN PyInt(6) ELSE byText
          IN [t |-> "dict",
              v |-> setitem(setitem(popped, "evidence_level", evidence_level),
                            "evidence_level_name",
                            PyStr(EVIDENCE_LEVELS[evidence_level.v]))]

\* variant: the stronger of the tag level and the text level is taken
classify_article_best_of_both(a) ==
  LET pub_types0 == get(a, "pubmedPublicationTypes", PyList(<<>>))
      pub_types == IF pub_types0.t = "str" THEN PyList(<<pub_types0>>)
                   ELSE pub_types0
      byType == _classify_by_publication_type(pub_types)
  IN IF IsRaise(byType) THEN byType
     ELSE LET byText == _classify_by_text(get(a, "title", PyStr("")),
                                          get(a, "abstract", PyStr("")))
              best == IF IsNone(byType) THEN byText
                      ELSE IF IsNone(byText) THEN byType
                      ELSE IF byText.v < byType.v THEN byText ELSE byType
              evidence_level == IF IsNone(best) THEN PyInt(6) ELSE best
          IN [t |-> "dict",
              v |-> setitem(setitem(a, "evidence_level", evidence_level),
                            "evidence_level_name",
                            PyStr(EVIDENCE_LEVELS[evidence_level.v]))]

classify_article(a) ==
  LET pub_types0 == get(a, "pubmedPublicationTypes", PyList(<<>>))
      pub_types == IF pub_types0.t = "str" THEN PyList(<<pub_types0>>)
                   ELSE pub_types0
      byType == _classify_by_publication_type(pub_types)
  IN IF IsRaise(byType) THEN byType
     ELSE LET byText == IF IsNone(byType)
                        THEN _classify_by_text(get(a, "title", PyStr("")),
                                               get(a, "abstract", PyStr("")))
                        ELSE byType
              evidence_level == IF IsNone(byText) THEN PyInt(6) ELSE byText
          IN [t |-> "dict",
              v |-> setitem(setitem(a, "evidence_level", evidence_level),
                            "evidence_level_name",
                            PyStr(EVIDENCE_LEVELS[evidence_level.v]))]

\* variant: an article goes before the articles of its own level
RECURSIVE InsertByLevel_before_equal(_, _)
InsertByLevel_before_equal(done, a) ==
  IF done = <<>> THEN <<a>>
  ELSE IF get(a, "evidence_level", PyInt(6)).v
            <= get(Head(done), "evidence_level", PyInt(6)).v
       THEN <<a>> \o done
       ELSE <<Head(done)>> \o InsertByLevel_before_equal(Tail(done), a)

\* sorted(classified, key=lambda x: x.get('evidence_level', 6)) is stable:
\* an article goes behind the articles of its own level already placed
RECURSIVE InsertByLevel(_, _)
InsertByLevel(done, a) ==
  IF done = <<>> THEN <<a>>
  ELSE IF get(a, "evidence_level", PyInt(6)).v
            < get(Head(done), "evidence_level", PyInt(6)).v
       THEN <<a>> \o done
       ELSE <<Head(done)>> \o InsertByLevel(Tail(done), a)

RECURSIVE SortedByLevel(_, _, _)
SortedByLevel(articles, k, done) ==
  IF k > Len(articles) THEN done
  ELSE SortedByLevel(articles, k + 1, InsertByLevel(done, articles[k]))

\* the position of the first article classify_article raises for, 0 if it
\* returns for all of them
FirstRaising(articles) ==
  LET raising == {k \in 1..Len(articles) :
                    IsRaise(classify_article(articles[k]))}
  IN IF raising = {} THEN 0
     ELSE CHOOSE k \in raising : \A r \in raising : k <= r

classify_articles(articles) ==
  IF FirstRaising(articles) # 0
  THEN classify_article(articles[FirstRaising(articles)])
  ELSE PyList(SortedByLevel([k \in 1..Len(articles) |->
                               classify_article(articles[k]).v], 1, <<>>))

\* variant: min_level < level < max_level
filter_by_level_exclusive(articles, min_level, max_level) ==
  LET InRange(a) ==
        /\ min_level < get(a, "evidence_level", PyInt(6)).v
        /\ get(a, "evidence_level", PyInt(6)).v < max_level
  IN SelectSeq(articles, InRange)

\* [article for article in articles if min_level <= level <= max_level]
filter_by_level(articles, min_level, max_level) ==
  LET InRange(a) ==
        /\ min_level <= get(a, "evidence_level", PyInt(6)).v
        /\ get(a, "evidence_level", PyInt(6)).v <= max_level
  IN SelectSeq(articles, InRange)

-----------------------------------------------------------------------------
(* jbi_checklist.py *)

QUALITY_THRESHOLDS == [high |-> 80, moderate |-> 60, low |-> 0]

\* the character at position i, "" past the end
CharAt(text, i) == IF i >= 1 /\ i <= Len(text) THEN SubSeq(text, i, i) ELSE ""

\* text[i:].startswith(word)
StartsAt(text, i, word) ==
  /\ i >= 1
  /\ i + Len(word) - 1 <= Len(text)
  /\ SubSeq(text, i, i + Len(word) - 1) = word

\* regex class \d
IsDigit(c) == c \in {"0", "1", "2", "3", "4", "5", "6", "7", "8", "9"}

\* regex class \s
IsSpace(c) == c \in {" ", "\t", "\n", "\r", "\f"}

\* regex class [:\s]
IsColonOrSpace(c) == c = ":" \/ IsSpace(c)

\* end of the greedy run \d* that starts at i: first position not a digit
RECURSIVE DigitsEnd(_, _)
DigitsEnd(text, i) ==
  IF IsDigit(CharAt(text, i)) THEN DigitsEnd(text, i + 1) ELSE i

\* end of the greedy run \s* that starts at i
RECURSIVE SpacesEnd(_, _)
SpacesEnd(text, i) ==
  IF IsSpace(CharAt(text, i)) THEN SpacesEnd(text, i + 1) ELSE i

\* end of the greedy run [:\s]* that starts at i
RECURSIVE ColonSpacesEnd(_, _)
ColonSpacesEnd(text, i) ==
  IF IsColonOrSpace(CharAt(text, i)) THEN ColonSpacesEnd(text, i + 1) ELSE i

DigitValue(c) ==
  CASE c = "0" -> 0 [] c = "1" -> 1 [] c = "2" -> 2 [] c = "3" -> 3
    [] c = "4" -> 4 [] c = "5" -> 5 [] c = "6" -> 6 [] c = "7" -> 7
    [] c = "8" -> 8 [] c = "9" -> 9

\* int(digits)
RECURSIVE ParseInt(_, _)
ParseInt(digits, acc) ==
  IF digits = "" THEN acc
  ELSE ParseInt(SubSeq(digits, 2, Len(digits)),
                10 * acc + DigitValue(SubSeq(digits, 1, 1)))

\* start of group 1 of  loss to follow[- ]up[:\s]+(\d+)  matched at i
LossGroupStart(text, i) == ColonSpacesEnd(text, i + 17)

LossMatchesAt(text, i) ==
  /\ StartsAt(text, i, "loss to follow")
  /\ CharAt(text, i + 14) \in {"-", " "}
  /\ StartsAt(text, i + 15, "up")
  /\ IsColonOrSpace(CharAt(text, i + 17))
  /\ IsDigit(CharAt(text, LossGroupStart(text, i)))

\* re.search: the leftmost position from i on at which the loss pattern
\* matches, 0 if none
SearchLoss(text, i) ==
  LET matches == {j \in i..Len(text) : LossMatchesAt(text, j)}
  IN IF matches = {} THEN 0
     ELSE CHOOSE j \in matches : \A k \in matches : j <= k

\* (\d+)\s*(participants|patients|subjects)  matched at i
SampleMatchesAt(text, i) ==
  /\ IsDigit(CharAt(text, i))
  /\ LET w == SpacesEnd(text, DigitsEnd(text, i))
     IN \/ StartsAt(text, w, "participants")
        \/ StartsAt(text, w, "patients")
        \/ StartsAt(text, w, "subjects")

\* re.search: the leftmost position from i on at which the sample-size
\* pattern matches, 0 if none
SearchSample(text, i) ==
  LET matches == {j \in i..Len(text) : SampleMatchesAt(text, j)}
  IN IF matches = {} THEN 0
     ELSE CHOOSE j \in matches : \A k \in matches : j <= k

_get_article_text(a) ==
  lower(Format(get(a, "title", PyStr(""))) \o " "
          \o Format(get(a, "abstract", PyStr(""))))

\* variant: all(...) instead of any(...)
_check_keyword_all(text, keywords) ==
  \A k \in 1..Len(keywords) : Contains(lower(keywords[k]), text)

_check_keyword(text, keywords) ==
  AnyIn([k \in 1..Len(keywords) |-> lower(keywords[k])], text)

\* variant: a loss of exactly 20 counts as adequate too
_check_follow_up_at_most(text) ==
  LET m == SearchLoss(text, 1)
      g == LossGroupStart(text, m)
      loss_percent == ParseInt(SubSeq(text, g, DigitsEnd(text, g) - 1), 0)
  IN IF m # 0 /\ loss_percent <= 20 THEN TRUE
     ELSE AnyIn(<<"complete follow-up", "followed up", "no loss to follow">>,
                text)

_check_follow_up(text) ==
  LET m == SearchLoss(text, 1)
      g == LossGroupStart(text, m)
      loss_percent == ParseInt(SubSeq(text, g, DigitsEnd(text, g) - 1), 0)
  IN IF m # 0 /\ loss_percent < 20 THEN TRUE
     ELSE AnyIn(<<"complete follow-up", "followed up", "no loss to follow">>,
                text)

\* variant: a sample of exactly 50 counts as adequate too
_check_sample_size_at_least(text) ==
  LET m == SearchSample(text, 1)
      n == ParseInt(SubSeq(text, m, DigitsEnd(text, m) - 1), 0)
  IN IF m # 0 THEN n >= 50 ELSE FALSE

_check_sample_size(text) ==
  LET m == SearchSample(text, 1)
      n == ParseInt(SubSeq(text, m, DigitsEnd(text, m) - 1), 0)
  IN IF m # 0 THEN n > 50 ELSE FALSE

_check_statistical_analysis(text) ==
  AnyIn(<<"p value", "p-value", "statistically significant",
          "confidence interval", "odds ratio", "relative risk",
          "hazard ratio", "regression", "anova", "t-test">>, text)

_check_conflicts(a) ==
  _check_keyword(_get_article_text(a),
                 <<"conflict of interest", "no conflict", "disclosures">>)

\* one entry of a criteria dict (the question text is left out)
Criterion(name, points, present) ==
  [name |-> name, points |-> points, present |-> present]

RECURSIVE SumPoints(_, _)
SumPoints(criteria, onlyPresent) ==
  IF criteria = <<>> THEN 0
  ELSE (IF onlyPresent => Head(criteria).present
        THEN Head(criteria).points ELSE 0)
       + SumPoints(Tail(criteria), onlyPresent)

(* Python floats are IEEE 754 doubles: 53 significant bits, every operation *)
(* rounded to nearest, ties to even.  A positive double is modelled as     *)
(* [m, e]: m its 53-bit significand (an integer too wide for one number,   *)
(* so held in limbs) and e the number of its bits behind the binary point, *)
(* so that the value is m * 2^(-e).                                        *)
SignificantBits == 53

\* the significand is kept in limbs, the first limb first: a leading limb
\* with the top bit and LowLimbs limbs of LimbBits bits each
LimbBits == 13

LowLimbs == (SignificantBits - 1) \div LimbBits

RECURSIVE Pow2(_)
Pow2(n) == IF n = 0 THEN 1 ELSE 2 * Pow2(n - 1)

Base == Pow2(LimbBits)

\* the number of bits of n
BitLength(n) ==
  CHOOSE b \in 0..30 : n < Pow2(b) /\ (b = 0 \/ n >= Pow2(b - 1))

\* limbs * factor, from the last limb to the first; carry is what the limbs
\* behind position i have carried over
RECURSIVE MulSmall(_, _, _, _, _)
MulSmall(limbs, i, factor, carry, acc) ==
  IF i = 1 THEN <<limbs[1] * factor + carry>> \o acc
  ELSE MulSmall(limbs, i - 1, factor,
                (limbs[i] * factor + carry) \div Base,
                <<(limbs[i] * factor + carry) % Base>> \o acc)

\* limbs divided by d, from the first limb to the last: quotient q and
\* remainder r
RECURSIVE DivSmall(_, _, _, _, _)
DivSmall(limbs, i, d, rem, acc) ==
  IF i > Len(limbs) THEN [q |-> acc, r |-> rem]
  ELSE DivSmall(limbs, i + 1, d, (rem * Base + limbs[i]) % d,
                Append(acc, (rem * Base + limbs[i]) \div d))

\* limbs + 1, the carry running from position i to the first limb
RECURSIVE AddOne(_, _)
AddOne(limbs, i) ==
  IF i = 1 \/ limbs[i] + 1 < Base THEN [limbs EXCEPT ![i] = @ + 1]
  ELSE AddOne([limbs EXCEPT ![i] = 0], i - 1)

RECURSIVE FromLimbs(_, _)
FromLimbs(limbs, acc) ==
  IF limbs = <<>> THEN acc
  ELSE FromLimbs(Tail(limbs), Base * acc + Head(limbs))

\* round to nearest, ties to even: limbs holds one bit more than is kept
\* (the guard bit), sticky tells whether anything behind it is not zero
RoundHalfEven(limbs, sticky) ==
  LET half == DivSmall(limbs, 1, 2, 0, <<>>)
  IN IF half.r = 1 /\ (sticky \/ half.q[Len(half.q)] % 2 = 1)
     THEN AddOne(half.q, Len(half.q))
     ELSE half.q

\* the double m * 2^(-e); a significand rounded up to 2^SignificantBits is
\* brought back to SignificantBits bits
Normalize(m, e) ==
  IF m[1] > 1 THEN [m |-> DivSmall(m, 1, 2, 0, <<>>).q, e |-> e - 1]
  ELSE [m |-> m, e |-> e]

\* the least k with n * 2^k >= d, for 0 < n < d
RECURSIVE LeadingShift(_, _, _)
LeadingShift(r, d, k) ==
  IF 2 * r >= d THEN k ELSE LeadingShift(2 * r, d, k + 1)

\* the double n / d, for integers 0 < n <= d
FloatDivide(n, d) ==
  IF n = d
  THEN [m |-> <<1>> \o [i \in 1..LowLimbs |-> 0], e |-> SignificantBits - 1]
  ELSE LET k == LeadingShift(n, d, 1)
           q == DivSmall(<<n * Pow2(k + 1)>> \o [i \in 1..LowLimbs |-> 0],
                         1, d, 0, <<>>)
       IN Normalize(RoundHalfEven(q.q, q.r # 0), SignificantBits - 1 + k)

\* the double x * factor, for a positive double x and a small integer factor
FloatMultiply(x, factor) ==
  LET product == MulSmall(x.m, Len(x.m), factor, 0, <<>>)
      extra == BitLength(product[1]) - 1
  IN IF extra = 0 THEN [m |-> product, e |-> x.e]
     ELSE LET g == DivSmall(product, 1, Pow2(extra - 1), 0, <<>>)
          IN Normalize(RoundHalfEven(g.q, g.r # 0), x.e - extra)

\* int(x) for a double 0 < x < 2^(SignificantBits - 1): the bits in front
\* of the binary point
FloatToInt(x) ==
  LET drop == x.e \div LimbBits
  IN IF drop >= Len(x.m) THEN 0
     ELSE FromLimbs(DivSmall(SubSeq(x.m, 1, Len(x.m) - drop), 1,
                             Pow2(x.e % LimbBits), 0, <<>>).q, 0)

\* int((total_earned / total_possible) * 100)
Percentage(total_earned, total_possible) ==
  IF total_earned = 0 THEN 0
  ELSE FloatToInt(FloatMultiply(FloatDivide(total_earned, total_possible),
                                100))

\* the double n / d, for integers n > 0 and d > 0: a divisor scaled by a
\* power of two leaves the significand as it is
RECURSIVE FloatQuotient(_, _, _)
FloatQuotient(n, d, scale) ==
  IF n <= d * Pow2(scale)
  THEN LET x == FloatDivide(n, d * Pow2(scale))
       IN [m |-> x.m, e |-> x.e - scale]
  ELSE FloatQuotient(n, d, scale + 1)

\* round(x, 1) for a double 0 < x < 2^(SignificantBits - 1), as a number of
\* tenths: the decimal nearest to the exact value of x, ties to even
FloatRoundTenths(x) ==
  LET product == MulSmall(x.m, Len(x.m), 10, 0, <<>>)
      drop == (x.e - 1) \div LimbBits
      kept == Len(product) - drop
  IN IF kept <= 0 THEN 0
     ELSE LET g == DivSmall(SubSeq(product, 1, kept), 1,
                            Pow2((x.e - 1) % LimbBits), 0, <<>>)
              sticky == \/ g.r # 0
                        \/ \E i \in (kept + 1)..Len(product) : product[i] # 0
          IN FromLimbs(RoundHalfEven(g.q, sticky), 0)

\* variant: round(percentage) instead of int(percentage)
_calculate_score_round(criteria) ==
  LET total_possible == SumPoints(criteria, FALSE)
      total_earned == SumPoints(criteria, TRUE)
      percentage == IF total_possible > 0
                    THEN (200 * total_earned + total_possible)
                           \div (2 * total_possible)
                    ELSE 0
  IN [criteria |-> criteria,
      total_score |-> percentage,
      criteria_met |-> Cardinality({k \in 1..Len(criteria) : criteria[k].present}),
      criteria_total |-> Len(criteria)]

_calculate_score(criteria) ==
  LET total_possible == SumPoints(criteria, FALSE)
      total_earned == SumPoints(criteria, TRUE)
      percentage == IF total_possible > 0
                    THEN Percentage(total_earned, total_possible)
                    ELSE 0
  IN [criteria |-> criteria,
      total_score |-> percentage,
      criteria_met |-> Cardinality({k \in 1..Len(criteria) : criteria[k].present}),
      criteria_total |-> Len(criteria)]

_assess_rct(a) ==
  LET text == _get_article_text(a)
  IN _calculate_score(<<
       Criterion("randomization", 10, _check_keyword(text,
         <<"random", "randomized", "randomised", "randomly assigned",
           "random allocation">>)),
       Criterion("allocation_concealment", 10, _check_keyword(text,
         <<"allocation concealed", "concealed allocation",
           "central randomization", "sealed opaque envelope">>)),
       Criterion("blinding_participants", 5, _check_keyword(text,
         <<"participant blinded", "patient blinded", "double-blind",
           "single-blind">>)),
       Criterion("blinding_personnel", 5, _check_keyword(text,
         <<"investigator blinded", "personnel blinded", "double-blind",
           "assessor blinded">>)),
       Criterion("blinding_outcome", 5, _check_keyword(text,
         <<"outcome assessor blinded", "blinded outcome assessment",
           "double-blind">>)),
       Criterion("follow_up_complete", 15, _check_follow_up(text)),
       Criterion("intention_to_treat", 15, _check_keyword(text,
         <<"intention to treat", "intention-to-treat", "itt analysis",
           "analyzed as randomized">>)),
       Criterion("baseline_similarity", 10, _check_keyword(text,
         <<"baseline characteristics", "similar at baseline",
           "no significant difference at baseline", "balanced">>)),
       Criterion("equal_treatment", 10, _check_keyword(text,
         <<"co-intervention", "equal treatment",
           "except for intervention">>)),
       Criterion("reliable_measures", 10, _check_keyword(text,
         <<"validated", "reliable measure", "standardized measure">>)),
       Criterion("appropriate_analysis", 5,
         _check_statistical_analysis(text)),
       Criterion("conflicts_declared", 10, _check_conflicts(a)) >>)

_assess_systematic_review(a) ==
  LET text == _get_article_text(a)
  IN _calculate_score(<<
       Criterion("question_defined", 10, _check_keyword(text,
         <<"objective", "research question", "aim of this review",
           "purpose of this review">>)),
       Criterion("inclusion_criteria", 10, _check_keyword(text,
         <<"inclusion criteria", "eligibility criteria",
           "inclusion and exclusion">>)),
       Criterion("search_strategy", 20, _check_keyword(text,
         <<"comprehensive search", "multiple databases", "medline",
           "pubmed", "embase", "cochrane", "systematic search">>)),
       Criterion("study_selection", 10, _check_keyword(text,
         <<"independent selection", "two reviewers",
           "two independent reviewers">>)),
       Criterion("quality_assessment", 15, _check_keyword(text,
         <<"quality assessment", "risk of bias", "critical appraisal",
           "methodological quality">>)),
       Criterion("data_extraction", 10, _check_keyword(text,
         <<"independent extraction", "two reviewers",
           "data extraction">>)),
       Criterion("synthesis_methods", 15, _check_keyword(text,
         <<"meta-analysis", "pooled", "heterogeneity", "publication bias",
           "sensitivity analysis">>)),
       Criterion("conflicts_declared", 10, _check_conflicts(a)) >>)

_assess_cohort(a) ==
  LET text == _get_article_text(a)
  IN _calculate_score(<<
       Criterion("representative", 10, _check_keyword(text,
         <<"representative", "consecutive", "population-based">>)),
       Criterion("groups_defined", 15, _check_keyword(text,
         <<"exposure group", "exposed group", "unexposed",
           "comparison group">>)),
       Criterion("confounding_identified", 10, _check_keyword(text,
         <<"confound", "confounding", "potential confounder">>)),
       Criterion("confounding_controlled", 10, _check_keyword(text,
         <<"adjusted", "multivariate", "regression", "propensity score",
           "matched", "stratified">>)),
       Criterion("outcomes_objective", 20, _check_keyword(text,
         <<"objective outcome", "standardized", "validated">>)),
       Criterion("follow_up_adequate", 15, _check_follow_up(text)),
       Criterion("appropriate_analysis", 15,
         _check_statistical_analysis(text)),
       Criterion("conflicts_declared", 5, _check_conflicts(a)) >>)

_assess_case_control(a) ==
  LET text == _get_article_text(a)
  IN _calculate_score(<<
       Criterion("cases_defined", 15, _check_keyword(text,
         <<"case definition", "cases defined", "inclusion criteria">>)),
       Criterion("cases_representative", 10, _check_keyword(text,
         <<"consecutive", "all cases", "population-based">>)),
       Criterion("controls_appropriate", 20, _check_keyword(text,
         <<"matched", "control group", "comparison group",
           "same population">>)),
       Criterion("exposure_objective", 20, _check_keyword(text,
         <<"standardized", "validated", "blinded assessment">>)),
       Criterion("confounding_controlled", 15, _check_keyword(text,
         <<"adjusted", "multivariate", "regression", "matched",
           "stratified">>)),
       Criterion("appropriate_analysis", 10,
         _check_statistical_analysis(text)),
       Criterion("conflicts_declared", 10, _check_conflicts(a)) >>)

_assess_generic(a) ==
  LET text == _get_article_text(a)
  IN _calculate_score(<<
       Criterion("design_appropriate", 15, _check_keyword(text,
         <<"study", "design", "method">>)),
       Criterion("sample_adequate", 15, _check_sample_size(text)),
       Criterion("objective_measures", 20, _check_keyword(text,
         <<"objective", "validated", "standardized", "reliable">>)),
       Criterion("confounding_addressed", 20, _check_keyword(text,
         <<"confound", "adjusted", "controlled">>)),
       Criterion("follow_up_adequate", 15, _check_follow_up(text)),
       Criterion("appropriate_analysis", 15,
         _check_statistical_analysis(text)) >>)

\* variant: > instead of >= at the thresholds
_get_quality_rating_exclusive(score) ==
  IF score > QUALITY_THRESHOLDS.high THEN "High"
  ELSE IF score > QUALITY_THRESHOLDS.moderate THEN "Moderate"
       ELSE "Low"

_get_quality_rating(score) ==
  IF score >= QUALITY_THRESHOLDS.high THEN "High"
  ELSE IF score >= QUALITY_THRESHOLDS.moderate THEN "Moderate"
       ELSE "Low"

\* evidence_level == n, for a value of any type
PyEq(x, n) == x.t = "int" /\ x.v = n

\* variant: the final else runs the RCT checklist
SelectChecklist_else_rct(a, evidence_level) ==
  IF PyEq(evidence_level, 1) THEN _assess_systematic_review(a)
  ELSE IF PyEq(evidence_level, 3) THEN _assess_cohort(a)
  ELSE IF PyEq(evidence_level, 4) THEN _assess_case_control(a)
  ELSE _assess_rct(a)

\* the if/elif chain of assess_article: the checklist run for a level
SelectChecklist(a, evidence_level) ==
  IF PyEq(evidence_level, 1) THEN _assess_systematic_review(a)
  ELSE IF PyEq(evidence_level, 2) THEN _assess_rct(a)
  ELSE IF PyEq(evidence_level, 3) THEN _assess_cohort(a)
  ELSE IF PyEq(evidence_level, 4) THEN _assess_case_control(a)
  ELSE _assess_generic(a)

\* variant: the rating is also written to the article itself
StoreAssessment_rates_article(a, assessment) ==
  [t |-> "dict",
   v |-> setitem(setitem(a, "quality",
                         PyStr(_get_quality_rating(assessment.total_score))),
                 "jbi_assessment",
           [t |-> "dict",
            v |-> [criteria |-> assessment.criteria,
                   total_score |-> assessment.total_score,
                   criteria_met |-> assessment.criteria_met,
                   criteria_total |-> assessment.criteria_total,
                   quality |-> _get_quality_rating(assessment.total_score),
                   quality_percent |-> assessment.total_score]])]

\* the tail of assess_article: rating added, assessment stored on the article
StoreAssessment(a, assessment) ==
  [t |-> "dict",
   v |-> setitem(a, "jbi_assessment",
           [t |-> "dict",
            v |-> [criteria |-> assessment.criteria,
                   total_score |-> assessment.total_score,
                   criteria_met |-> assessment.criteria_met,
                   criteria_total |-> assessment.criteria_total,
                   quality |-> _get_quality_rating(assessment.total_score),
                   quality_percent |-> assessment.total_score]])]

\* variant: article['evidence_level'] instead of article.get
assess_article_subscript(a) ==
  IF "evidence_level" \notin DOMAIN a THEN Raise("KeyError")
  ELSE StoreAssessment(a, SelectChecklist(a, a.evidence_level))

assess_article(a) ==
  StoreAssessment(a, SelectChecklist(a, get(a, "evidence_level", PyInt(2))))

-----------------------------------------------------------------------------
(* ebm_analyzer.py *)

\* variant: level_counts[level] = 1 instead of counting up
RECURSIVE LevelCounts_overwrite(_, _, _)
LevelCounts_overwrite(articles, k, level_counts) ==
  IF k > Len(articles) THEN level_counts
  ELSE LET level == get(articles[k], "evidence_level", PyInt(6))
       IN LevelCounts_overwrite(articles, k + 1,
                                setitem(level_counts, level, 1))

\* level_counts of _generate_summary: the dict built by the counting loop
RECURSIVE LevelCounts(_, _, _)
LevelCounts(articles, k, level_counts) ==
  IF k > Len(articles) THEN level_counts
  ELSE LET level == get(articles[k], "evidence_level", PyInt(6))
       IN LevelCounts(articles, k + 1,
                      setitem(level_counts, level,
                              get(level_counts, level, 0) + 1))

\* a.get('jbi_assessment', {}).get(key, default)
AssessmentField(a, key, default) ==
  get(get(a, "jbi_assessment", [t |-> "dict", v |-> <<>>]).v, key, default)

\* the key of the sort: (evidence_level, -quality_percent)
SortKey_quality_first(a) ==
  << 0 - AssessmentField(a, "quality_percent", 0),
     get(a, "evidence_level", PyInt(6)).v >>

SortKey(a) ==
  << get(a, "evidence_level", PyInt(6)).v,
     0 - AssessmentField(a, "quality_percent", 0) >>

\* x < y for two keys, as Python compares tuples
KeyLess(x, y) == x[1] < y[1] \/ (x[1] = y[1] /\ x[2] < y[2])

\* variant: an article goes in front of the articles with an equal key
RECURSIVE InsertSorted_before_equal(_, _)
InsertSorted_before_equal(done, a) ==
  IF done = <<>> THEN <<a>>
  ELSE IF ~KeyLess(SortKey(Head(done)), SortKey(a)) THEN <<a>> \o done
       ELSE <<Head(done)>> \o InsertSorted_before_equal(Tail(done), a)

\* sorted() is stable: an article goes behind the articles sorted so far
\* whose key is smaller or equal
RECURSIVE InsertSorted(_, _)
InsertSorted(done, a) ==
  IF done = <<>> THEN <<a>>
  ELSE IF KeyLess(SortKey(a), SortKey(Head(done))) THEN <<a>> \o done
       ELSE <<Head(done)>> \o InsertSorted(Tail(done), a)

\* sorted(articles, key=...)
RECURSIVE sorted_articles(_, _, _)
sorted_articles(articles, k, done) ==
  IF k > Len(articles) THEN done
  ELSE sorted_articles(articles, k + 1, InsertSorted(done, articles[k]))

\* sequence[:n] for n >= 0
SliceTo(sequence, n) ==
  SubSeq(sequence, 1, IF n < Len(sequence) THEN n ELSE Len(sequence))

\* the max_articles=10 of _get_top_evidence and of its call
DefaultMaxArticles == 10

\* variant: the slice is taken before the sort
_get_top_evidence_slice_first(articles, max_articles) ==
  sorted_articles(SliceTo(articles, max_articles), 1, <<>>)

_get_top_evidence(articles, max_articles) ==
  SliceTo(sorted_articles(articles, 1, <<>>), max_articles)

\* sum(1 for a in articles if a.get('jbi_assessment', {}).get('quality') == q)
QualityCount(articles, quality) ==
  Cardinality({k \in 1..Len(articles) :
                 AssessmentField(articles[k], "quality", "") = quality})

RECURSIVE PercentSum(_)
PercentSum(articles) ==
  IF articles = <<>> THEN 0
  ELSE AssessmentField(Head(articles), "quality_percent", 0)
         + PercentSum(Tail(articles))

\* round(sum / max(len(articles), 1), 1), in tenths
AverageTenths(total, count) ==
  IF total = 0 THEN 0
  ELSE FloatRoundTenths(FloatQuotient(total, IF count > 1 THEN count ELSE 1, 0))

\* variant: the average is cut off behind the first decimal
_calculate_quality_summary_truncate(articles) ==
  [high_quality |-> QualityCount(articles, "High"),
   moderate_quality |-> QualityCount(articles, "Moderate"),
   low_quality |-> QualityCount(articles, "Low"),
   average_score |->
     [t |-> "float",
      tenths |-> (10 * PercentSum(articles))
                   \div (IF Len(articles) > 1 THEN Len(articles) ELSE 1)]]

\* average_score is a float with one decimal, held as its number of tenths
_calculate_quality_summary(articles) ==
  [high_quality |-> QualityCount(articles, "High"),
   moderate_quality |-> QualityCount(articles, "Moderate"),
   low_quality |-> QualityCount(articles, "Low"),
   average_score |->
     [t |-> "float",
      tenths |-> AverageTenths(PercentSum(articles), Len(articles))]]

\* the alternatives of the two patterns of _extract_key_findings, in lower
\* case: the search ignores case
FINDING_PATTERNS ==
  << <<"significant", "reduced", "increased", "improved", "efficacy",
       "effective">>,
     <<"rr", "or", "hr", "ci", "p-value", "p < ", "p=">> >>

\* length of the first alternative of pattern p that starts at i, 0 if
\* none does
KeywordLength(p, low, i) ==
  LET hits == {k \in 1..Len(FINDING_PATTERNS[p]) :
                 StartsAt(low, i, FINDING_PATTERNS[p][k])}
  IN IF hits = {} THEN 0
     ELSE Len(FINDING_PATTERNS[p][CHOOSE k \in hits : \A h \in hits : k <= h])

\* .*?[.!?](?:\s|$) from position from: the position of the first
\* terminator that white space or the end of the text follows, reached
\* without crossing a line break; 0 if there is none
TerminatorFrom(text, from) ==
  LET breaks == {k \in from..Len(text) : CharAt(text, k) = "\n"}
      line_end == IF breaks = {} THEN Len(text)
                  ELSE (CHOOSE k \in breaks : \A b \in breaks : k <= b) - 1
      ends == {j \in from..line_end :
                 /\ CharAt(text, j) \in {".", "!", "?"}
                 /\ (j = Len(text) \/ IsSpace(CharAt(text, j + 1)))}
  IN IF ends = {} THEN 0 ELSE CHOOSE j \in ends : \A k \in ends : j <= k

\* end of a match whose terminator stands at j: the match takes the white
\* space character behind the terminator; 0 if there is no terminator
MatchEndAt(text, j) ==
  IF j = 0 THEN 0
  ELSE IF j < Len(text) THEN j + 1 ELSE j

\* end of the match of pattern p that starts at i, 0 if none starts there
MatchEnd(p, text, low, i) ==
  MatchEndAt(text, IF KeywordLength(p, low, i) = 0 THEN 0
                   ELSE TerminatorFrom(text, i + KeywordLength(p, low, i)))

\* start of the leftmost match of pattern p from position pos on, 0 if
\* there is none
FirstStart(p, text, low, pos) ==
  LET starts == {i \in pos..Len(text) : MatchEnd(p, text, low, i) > 0}
  IN IF starts = {} THEN 0
     ELSE CHOOSE s \in starts : \A t \in starts : s <= t

\* re.finditer(pattern, abstract, re.IGNORECASE) from position pos on: the
\* matched texts from left to right, none overlapping another
RECURSIVE finditer(_, _, _, _)

\* the match that starts at i, then the matches behind it; none if i is 0
MatchesFrom(p, text, low, i) ==
  IF i = 0 THEN <<>>
  ELSE <<SubSeq(text, i, MatchEnd(p, text, low, i))>>
       \o finditer(p, text, low, MatchEnd(p, text, low, i) + 1)

finditer(p, text, low, pos) ==
  MatchesFrom(p, text, low, FirstStart(p, text, low, pos))

\* str.strip()
strip(s) ==
  LET solid == {i \in 1..Len(s) : ~IsSpace(CharAt(s, i))}
  IN IF solid = {} THEN ""
     ELSE SubSeq(s, CHOOSE i \in solid : \A k \in solid : i <= k,
                    CHOOSE i \in solid : \A k \in solid : i >= k)

\* len(finding) > 20 and len(finding) < 200
KeepFinding(finding) == Len(finding) > 20 /\ Len(finding) < 200

\* f"**{authors} et al. ({year})**: {finding}"
FormatFinding(a, finding) ==
  "**" \o Format(get(a, "firstAuthor", PyStr("Unknown"))) \o " et al. ("
    \o Format(get(a, "pubYear", PyStr("Unknown"))) \o ")**: " \o finding

\* article.get('abstract', '')
AbstractOf(a) == get(a, "abstract", PyStr("")).v

\* match.group(0).strip() of every match
StripAll(matches) == [m \in 1..Len(matches) |-> strip(matches[m])]

\* the entries appended for the kept findings: each with the article and
\* the pattern it comes from
FindingEntries(a, k, p, kept) ==
  [m \in 1..Len(kept) |->
     [article |-> k, pattern |-> p, finding |-> kept[m],
      text |-> FormatFinding(a, kept[m])]]

\* what the loop over one pattern appends for the article at position k
PatternFindings(a, k, p) ==
  FindingEntries(a, k, p,
    SelectSeq(StripAll(finditer(p, AbstractOf(a), lower(AbstractOf(a)), 1)),
              KeepFinding))

\* the body of the loop over the articles: both patterns in their order
ArticleFindings(a, k) == PatternFindings(a, k, 1) \o PatternFindings(a, k, 2)

\* the list findings after the loop over articles[:10] has handled the
\* articles from position k on
RECURSIVE Accumulate(_, _, _)
Accumulate(articles, k, findings) ==
  IF k > Len(articles) THEN findings
  ELSE Accumulate(articles, k + 1,
                  findings \o ArticleFindings(articles[k], k))

\* the articles[:10] of _extract_key_findings
MaxFindingArticles == 10

\* the findings[:20] of _extract_key_findings
MaxFindings == 20

\* re.finditer raises TypeError for an abstract that is no string
BadAbstract(articles) ==
  \E k \in 1..Len(articles) :
    get(articles[k], "abstract", PyStr("")).t # "str"

\* the list findings of _extract_key_findings before its last slice
AllFindings(articles) ==
  Accumulate(SliceTo(articles, MaxFindingArticles), 1, <<>>)

\* variant: every article is searched
_extract_key_findings_all_articles(articles) ==
  IF BadAbstract(SliceTo(articles, MaxFindingArticles))
  THEN Raise("TypeError")
  ELSE LET findings == SliceTo(Accumulate(articles, 1, <<>>), MaxFindings)
       IN PyList([k \in 1..Len(findings) |-> findings[k].text])

_extract_key_findings(articles) ==
  IF BadAbstract(SliceTo(articles, MaxFindingArticles))
  THEN Raise("TypeError")
  ELSE LET findings == SliceTo(AllFindings(articles), MaxFindings)
       IN PyList([k \in 1..Len(findings) |-> findings[k].text])

\* _generate_summary below: pico is not read and search_years is handed
\* through, both are left out

\* the dict _generate_summary returns, unless the extraction of the key
\* findings has raised
SummaryWith(articles, top_studies, key_findings) ==
  IF IsRaise(key_findings) THEN key_findings
  ELSE [t |-> "dict",
        v |-> [total_articles |-> Len(articles),
               level_counts |-> LevelCounts(articles, 1, <<>>),
               top_studies |-> top_studies,
               key_findings |-> key_findings.v,
               quality_summary |-> _calculate_quality_summary(articles)]]

_generate_summary(articles) ==
  SummaryWith(
    articles, _get_top_evidence(articles, DefaultMaxArticles),
    _extract_key_findings(_get_top_evidence(articles, DefaultMaxArticles)))

-----------------------------------------------------------------------------
(* Inputs *)

TagEntries ==
  { PyStr("Meta-Analysis"), PyStr("Controlled Clinical Trial"),
    PyStr("Case Reports"), PyStr("Journal Article") }

RECURSIVE SeqsUpTo(_, _)
SeqsUpTo(S, n) ==
  IF n = 0 THEN { <<>> }
  ELSE LET shorter == SeqsUpTo(S, n - 1)
       IN shorter \cup { Append(q, x) :
                           q \in { r \in shorter : Len(r) = n - 1 }, x \in S }

\* a tags field that is null, or a list with an entry that is not a string
MalformedTagFields ==
  { PyNone, PyList(<<PyInt(7)>>),
    PyList(<<PyStr("Meta-Analysis"), PyInt(7)>>) }

TagFields ==
  { PyStr("Randomized Controlled Trial") }
    \cup MalformedTagFields
    \cup { PyList(l) : l \in SeqsUpTo(TagEntries, MaxTags) }

\* a title or abstract that carries no text: null or empty (or absent)
NoTextFields == { PyNone, PyStr("") }

LevelFields ==
  { PyNone, PyStr("2") } \cup { PyInt(n) : n \in 0..7 }

\* a dict with the given optional field; <<>> leaves the key out
OptField(key, values) == { <<>> } \cup { (key :> x) : x \in values }

\* the title and abstract fields of a record
TextFields ==
  { ti @@ ab : ti \in OptField("title", NoTextFields),
               ab \in OptField("abstract", NoTextFields) }
    \cup
  { [title |-> PyStr("A Clinical Trial")],
    [title |-> PyStr("A Clinical Trial"),
     abstract |-> PyStr("Mouse study, 60 patients.")],
    [title |-> PyStr("Single Case")],
    [title |-> PyStr("Single Case"),
     abstract |-> PyStr("Report of a Retrospective Cohort")],
    [title |-> PyStr("Case"), abstract |-> PyStr("Report")],
    [title |-> PyStr("Pooled Analysis"), abstract |-> PyStr("")],
    [abstract |-> PyStr("Validated outcomes")],
    [title |-> PyNone,
     abstract |-> PyStr("Double-Blind RCT. Loss to follow-up: 5%. P-value adjusted.")],
    [title |-> PyStr(""),
     abstract |-> PyStr("loss to follow up 25 of 40 subjects")] }

\* records as the literature search delivers them
RawArticles ==
  { tg @@ tx : tg \in OptField("pubmedPublicationTypes", TagFields),
               tx \in TextFields }

\* records that arrive with an evidence_level field already on them
LeveledArticles ==
  { lv @@ tx : lv \in { ("evidence_level" :> x) : x \in LevelFields },
               tx \in TextFields }

\* the four phrases of scenario A, as one sentence of an abstract
ScenarioPhrases ==
  "Double-blind, intention-to-treat analysis, adjusted for confounders, p < 0.01."

\* abstracts without the four phrases
ScenarioBases ==
  { "", "Mouse study, 60 patients.",
    "Single-blind, investigator blinded, outcome assessor blinded, ITT analysis." }

\* an abstract and the sentence added to it
JoinSentence(abstract, sentence) ==
  IF abstract = "" THEN sentence ELSE abstract \o " " \o sentence

\* scenario A: tagged as a randomized controlled trial, the abstract with
\* and without the four phrases
ScenarioAArticles ==
  { [pubmedPublicationTypes |-> PyList(<<PyStr("Randomized Controlled Trial")>>),
     abstract |-> PyStr(x)] :
      x \in ScenarioBases
               \cup { JoinSentence(b, ScenarioPhrases) : b \in ScenarioBases } }

\* scenario B: no tags, an empty abstract, a title without any
\* classification keyword
ScenarioBArticles ==
  { [title |-> PyStr(x), abstract |-> PyStr("")] :
      x \in { "Editorial Note", "A Study Design",
              "Validated method, adjusted regression, 100 patients followed up" } }

Articles ==
  RawArticles \cup LeveledArticles \cup ScenarioAArticles
    \cup ScenarioBArticles

BatchArticles ==
  { <<>>,
    [pubmedPublicationTypes |-> PyList(<<PyStr("Meta-Analysis")>>),
     title |-> PyStr("Pooled Analysis"), abstract |-> PyStr("")],
    [pubmedPublicationTypes |-> PyStr("Randomized Controlled Trial"),
     abstract |-> PyStr("Double-Blind RCT. Loss to follow-up: 5%. P-value adjusted.")],
    [title |-> PyNone, abstract |-> PyStr("Mouse study, 60 patients.")],
    [pubmedPublicationTypes |-> PyNone, title |-> PyStr("A Clinical Trial")],
    [pubmedPublicationTypes |-> PyList(<<PyStr("Case Reports"), PyInt(7)>>),
     title |-> PyStr("Single Case")] }

Entries == { "analyze_from_question", "analyze_from_note",
             "analyze_from_pubmed_results" }

-----------------------------------------------------------------------------
(* A caller applying the public operations to one article dict *)

Init ==
  /\ article \in Articles
  /\ calls = <<>>
  /\ exc = "none"
  /\ entry = "none"
  /\ batch = <<>>
  /\ pc = "idle"
  /\ idx = 0
  /\ classified = <<>>
  /\ assessed = <<>>
  /\ summary = <<>>
  /\ result = NoCall

ClassifyArticle ==
  /\ Len(calls) < MaxCalls
  /\ LET r == classify_article(article)
     IN IF IsRaise(r)
        THEN /\ exc' = r.v
             /\ article' = article
        ELSE /\ exc' = "none"
             /\ article' = r.v
  /\ calls' = Append(calls, "classify_article")
  /\ UNCHANGED <<batchVars, result>>

AssessArticle ==
  /\ Len(calls) < MaxCalls
  /\ LET r == assess_article(article)
     IN IF IsRaise(r)
        THEN /\ exc' = r.v
             /\ article' = article
        ELSE /\ exc' = "none"
             /\ article' = r.v
  /\ calls' = Append(calls, "assess_article")
  /\ UNCHANGED <<batchVars, result>>

Next == ClassifyArticle \/ AssessArticle

Spec == Init /\ [][Next]_vars

-----------------------------------------------------------------------------
(* A batch run of the analyzer *)

BatchInit ==
  /\ article = <<>>
  /\ calls = <<>>
  /\ exc = "none"
  /\ entry \in Entries
  /\ batch \in SeqsUpTo(BatchArticles, MaxBatch)
  /\ pc = "start"
  /\ idx = 0
  /\ classified = <<>>
  /\ assessed = <<>>
  /\ summary = <<>>
  /\ result = NoCall

\* analyze_from_question/analyze_from_note: "if not pubmed_results"
RequestPubmedSearch ==
  /\ pc = "start"
  /\ entry \in {"analyze_from_question", "analyze_from_note"}
  /\ batch = <<>>
  /\ pc' = "pending"
  /\ UNCHANGED <<unitVars, result, exc, entry, batch, idx, classified,
                 assessed, summary>>

\* the call of _classify_articles
StartClassify ==
  /\ pc = "start"
  /\ entry = "analyze_from_pubmed_results" \/ batch # <<>>
  /\ pc' = "classify"
  /\ idx' = 1
  /\ classified' = <<>>
  /\ UNCHANGED <<unitVars, result, exc, entry, batch, assessed, summary>>

\* variant: the result is put at the front of the list
ClassifyStep_prepend ==
  /\ pc = "classify"
  /\ idx <= Len(batch)
  /\ LET r == classify_article(batch[idx])
     IN IF IsRaise(r)
        THEN /\ exc' = r.v
             /\ pc' = "raised"
             /\ UNCHANGED <<batch, classified, idx>>
        ELSE /\ batch' = [batch EXCEPT ![idx] = r.v]
             /\ classified' = <<idx>> \o classified
             /\ idx' = idx + 1
             /\ UNCHANGED <<exc, pc>>
  /\ UNCHANGED <<unitVars, result, entry, assessed, summary>>

\* one iteration of the loop of _classify_articles
ClassifyStep ==
  /\ pc = "classify"
  /\ idx <= Len(batch)
  /\ LET r == classify_article(batch[idx])
     IN IF IsRaise(r)
        THEN /\ exc' = r.v
             /\ pc' = "raised"
             /\ UNCHANGED <<batch, classified, idx>>
        ELSE /\ batch' = [batch EXCEPT ![idx] = r.v]
             /\ classified' = Append(classified, idx)
             /\ idx' = idx + 1
             /\ UNCHANGED <<exc, pc>>
  /\ UNCHANGED <<unitVars, result, entry, assessed, summary>>

\* variant: _assess_articles is called while _classify_articles still runs
StartAssess_before_end ==
  /\ pc = "classify"
  /\ pc' = "assess"
  /\ idx' = 1
  /\ assessed' = <<>>
  /\ UNCHANGED <<unitVars, result, exc, entry, batch, classified, summary>>

\* _classify_articles returns, _assess_articles is called
StartAssess ==
  /\ pc = "classify"
  /\ idx > Len(batch)
  /\ pc' = "assess"
  /\ idx' = 1
  /\ assessed' = <<>>
  /\ UNCHANGED <<unitVars, result, exc, entry, batch, classified, summary>>

\* one iteration of the loop of _assess_articles
AssessStep ==
  /\ pc = "assess"
  /\ idx <= Len(classified)
  /\ LET r == assess_article(batch[classified[idx]])
     IN IF IsRaise(r)
        THEN /\ exc' = r.v
             /\ pc' = "raised"
             /\ UNCHANGED <<batch, assessed, idx>>
        ELSE /\ batch' = [batch EXCEPT ![classified[idx]] = r.v]
             /\ assessed' = Append(assessed, classified[idx])
             /\ idx' = idx + 1
             /\ UNCHANGED <<exc, pc>>
  /\ UNCHANGED <<unitVars, result, entry, classified, summary>>

\* _assess_articles returns, _generate_summary runs
GenerateSummary ==
  /\ pc = "assess"
  /\ idx > Len(classified)
  /\ LET r == _generate_summary([k \in 1..Len(assessed) |->
                                    batch[assessed[k]]])
     IN IF IsRaise(r)
        THEN /\ exc' = r.v
             /\ pc' = "raised"
             /\ summary' = summary
        ELSE /\ summary' = r.v
             /\ pc' = "done"
             /\ exc' = exc
  /\ UNCHANGED <<unitVars, result, entry, batch, idx, classified, assessed>>

BatchNext ==
  \/ RequestPubmedSearch
  \/ StartClassify
  \/ ClassifyStep
  \/ StartAssess
  \/ AssessStep
  \/ GenerateSummary

BatchSpec == BatchInit /\ [][BatchNext]_vars

-----------------------------------------------------------------------------
(* The scoring tail of assess_article applied to any outcome of a checklist *)

\* the criteria of the five checklists, in the order assess_article tries them
Checklists ==
  << _assess_systematic_review(<<>>).criteria, _assess_rct(<<>>).criteria,
     _assess_cohort(<<>>).criteria, _assess_case_control(<<>>).criteria,
     _assess_generic(<<>>).criteria >>

\* the criteria dict a checklist builds when exactly the criteria at the
\* positions in met are satisfied
CriteriaWith(checklist, met) ==
  [k \in 1..Len(checklist) |->
     Criterion(checklist[k].name, checklist[k].points, k \in met)]

ScoreInit ==
  /\ article = <<>>
  /\ calls = <<>>
  /\ exc = "none"
  /\ entry = "none"
  /\ batch = <<>>
  /\ pc = "idle"
  /\ idx = 0
  /\ classified = <<>>
  /\ assessed = <<>>
  /\ summary = <<>>
  /\ result = NoCall

\* assess_article from the call of _calculate_score on: score, rating and
\* the assessment stored on the article (each run scores one outcome)
ScoreChecklist ==
  /\ result = NoCall
  /\ \E c \in 1..Len(Checklists) :
     \E met \in SUBSET (1..Len(Checklists[c])) :
      LET criteria == CriteriaWith(Checklists[c], met)
          stored == StoreAssessment(article, _calculate_score(criteria))
      IN /\ result' = [op |-> "_calculate_score", args |-> <<criteria>>,
                        v |-> stored.v.jbi_assessment.v]
         /\ UNCHANGED <<unitVars, exc, batchVars>>

ScoreNext == ScoreChecklist

ScoreSpec == ScoreInit /\ [][ScoreNext]_vars

-----------------------------------------------------------------------------
(* The aggregation operations applied to a list of processed articles *)

\* the position in Checklists of the checklist assess_article runs for a level
ChecklistFor(level) == IF level \in 1..4 THEN level ELSE 5

\* a record after classify_article and assess_article: its level, and the
\* assessment stored when the criteria at the positions in met are satisfied
Processed(title, level, met) ==
  StoreAssessment(
    [title |-> PyStr(title), evidence_level |-> PyInt(level),
     evidence_level_name |-> PyStr(EVIDENCE_LEVELS[level])],
    _calculate_score(CriteriaWith(Checklists[ChecklistFor(level)], met))).v

\* two reviews with equal scores, two trials with different scores, an
\* unknown design, and a record that was never classified or assessed
RankedArticles ==
  { Processed("a", 1, {1, 2, 3, 4, 5, 7}), Processed("b", 1, {1, 2, 3, 4, 5, 7}),
    Processed("c", 2, 1..11), Processed("d", 2, {1, 2, 6, 7, 8, 9}),
    Processed("e", 6, {}), [title |-> PyStr("f")] }

\* scenario C: twelve articles, 2 of level 1, 5 of level 2, 3 of level 3,
\* 2 of level 6
ScenarioCLevels == <<2, 1, 3, 2, 6, 2, 3, 1, 2, 6, 3, 2>>

ScenarioCBatch ==
  [k \in 1..Len(ScenarioCLevels) |->
     Processed(<<"c01", "c02", "c03", "c04", "c05", "c06",
                 "c07", "c08", "c09", "c10", "c11", "c12">>[k],
               ScenarioCLevels[k],
               {j \in 1..6 : j % 3 = k % 3 \/ j % 4 = k % 4})]

\* level bounds a caller filters with
LevelBounds == {1, 2, 3, 6}

\* values of max_articles
TopSizes == 0..(MaxRanked + 1) \cup {DefaultMaxArticles}

RankInit ==
  /\ article = <<>>
  /\ calls = <<>>
  /\ exc = "none"
  /\ entry = "none"
  /\ batch \in SeqsUpTo(RankedArticles, MaxRanked) \cup {ScenarioCBatch}
  /\ pc = "idle"
  /\ idx = 0
  /\ classified = <<>>
  /\ assessed = <<>>
  /\ summary = <<>>
  /\ result = NoCall

\* the operations below are functions of their arguments and leave the
\* list as it is; a run applies one of them

GetTopEvidence ==
  /\ result = NoCall
  /\ \E max_articles \in TopSizes :
       result' = [op |-> "_get_top_evidence", args |-> <<batch, max_articles>>,
                  v |-> _get_top_evidence(batch, max_articles)]
  /\ UNCHANGED <<unitVars, exc, batchVars>>

FilterByLevel ==
  /\ result = NoCall
  /\ \E min_level \in LevelBounds, max_level \in LevelBounds :
       result' = [op |-> "filter_by_level",
                  args |-> <<batch, min_level, max_level>>,
                  v |-> filter_by_level(batch, min_level, max_level)]
  /\ UNCHANGED <<unitVars, exc, batchVars>>

CalculateQualitySummary ==
  /\ result = NoCall
  /\ result' = [op |-> "_calculate_quality_summary", args |-> <<batch>>,
                v |-> _calculate_quality_summary(batch)]
  /\ UNCHANGED <<unitVars, exc, batchVars>>

Summarize ==
  /\ result = NoCall
  /\ LET r == _generate_summary(batch)
     IN IF IsRaise(r)
        THEN /\ result' = [op |-> "_generate_summary", args |-> <<batch>>,
                           v |-> r]
             /\ exc' = r.v
             /\ summary' = summary
        ELSE /\ result' = [op |-> "_generate_summary", args |-> <<batch>>,
                           v |-> r.v]
             /\ exc' = exc
             /\ summary' = r.v
  /\ UNCHANGED <<unitVars, entry, batch, pc, idx, classified, assessed>>

RankNext ==
  \/ GetTopEvidence
  \/ FilterByLevel
  \/ CalculateQualitySummary
  \/ Summarize

RankSpec == RankInit /\ [][RankNext]_vars

-----------------------------------------------------------------------------
(* _extract_key_findings applied to lists of articles with abstracts *)

\* s repeated n times
RECURSIVE Repeat(_, _)
Repeat(s, n) ==
  IF n = 0 THEN ""
  ELSE LET half == Repeat(s, n \div 2)
       IN IF n % 2 = 0 THEN half \o half ELSE half \o half \o s

\* an abstract whose only match is one sentence of the given length
SentenceOf(length) == "Reduced " \o Repeat("x", length - 9) \o "."

\* sentence lengths around the two bounds of the length test
EdgeLengths == {19, 20, 21, 199, 200, 201}

\* one match of each pattern; both patterns, the second matching twice
\* and also inside a word; a line break inside a sentence; a sentence
\* ended by the end of the text and by a final line break; the edge
\* lengths; no abstract; an abstract that is None
FindingArticles ==
  { [firstAuthor |-> PyStr("Adams"), pubYear |-> PyStr("2020"),
     abstract |-> PyStr("Treatment reduced pain scores markedly. The OR was 2.5 overall today.")],
    [firstAuthor |-> PyStr("Baker"), pubYear |-> PyStr("2021"),
     abstract |-> PyStr("Mortality improved significantly in all of the treated arms! HR 0.70, p=0.01, was seen in both groups.")],
    [firstAuthor |-> PyStr("Clark"),
     abstract |-> PyStr("It increased\nrapidly in the short term. Effective dosing was found!")],
    [pubYear |-> PyStr("2019"),
     abstract |-> PyStr("Efficacy was shown in two of the trials?\n")],
    [title |-> PyStr("Reduced mortality was significant."),
     firstAuthor |-> PyStr("Davis")],
    [firstAuthor |-> PyStr("Evans"), abstract |-> PyNone] }
  \cup { [firstAuthor |-> PyStr("Frank"), abstract |-> PyStr(SentenceOf(n))] :
           n \in EdgeLengths }

\* ten articles with three findings each, then one more article
ScenarioCapBatch ==
  [k \in 1..11 |->
     IF k <= 10
     THEN [firstAuthor |-> PyStr("Baker"), pubYear |-> PyStr("2021"),
           abstract |-> PyStr("Mortality improved significantly in all of the treated arms! HR 0.70, p=0.01, was seen in both groups.")]
     ELSE [firstAuthor |-> PyStr("Adams"), pubYear |-> PyStr("2020"),
           abstract |-> PyStr("Treatment reduced pain scores markedly. The OR was 2.5 overall today.")]]

\* ten articles with one finding each, then an eleventh with two
ScenarioSliceBatch ==
  [k \in 1..11 |->
     IF k <= 10
     THEN [firstAuthor |-> PyStr("Frank"), abstract |-> PyStr(SentenceOf(21))]
     ELSE [firstAuthor |-> PyStr("Adams"), pubYear |-> PyStr("2020"),
           abstract |-> PyStr("Treatment reduced pain scores markedly. The OR was 2.5 overall today.")]]

FindingsInit ==
  /\ article = <<>>
  /\ calls = <<>>
  /\ exc = "none"
  /\ entry = "none"
  /\ batch \in SeqsUpTo(FindingArticles, MaxBatch)
               \cup {ScenarioCapBatch, ScenarioSliceBatch}
  /\ pc = "idle"
  /\ idx = 0
  /\ classified = <<>>
  /\ assessed = <<>>
  /\ summary = <<>>
  /\ result = NoCall

\* one call of _extract_key_findings; findings is its local list before
\* the last slice, each entry with the article and pattern it comes from
ExtractKeyFindings ==
  /\ result = NoCall
  /\ LET r == _extract_key_findings(batch)
     IN /\ result' = [op |-> "_extract_key_findings", args |-> <<batch>>,
                      v |-> r,
                      findings |-> IF IsRaise(r) THEN <<>>
                                   ELSE AllFindings(batch)]
        /\ exc' = IF IsRaise(r) THEN r.v ELSE exc
  /\ UNCHANGED <<unitVars, batchVars>>

FindingsNext == ExtractKeyFindings

FindingsSpec == FindingsInit /\ [][FindingsNext]_vars

-----------------------------------------------------------------------------
(* _check_follow_up and _check_sample_size applied to the text of an article *)

\* what an abstract says about loss to follow-up: nothing; figures below,
\* at and above 20; a figure the pattern does not reach; two figures
LossParts ==
  { "", "Loss to follow-up: 0%", "loss to follow up 5", "Loss to follow-up: 19%",
    "Loss to follow-up: 20%", "loss to follow-up:  21", "loss to follow-up 150",
    "loss to follow-up was 5%", "loss to followup: 5",
    "Loss to follow-up: 25%, later loss to follow-up: 5%",
    "Loss to follow-up was low, loss to follow-up: 5%",
    "Loss to follow-up: 60 patients" }

\* the phrases that stand for a complete follow-up
FollowUpParts ==
  { "", "Complete follow-up", "All were Followed Up", "No loss to follow-up" }

\* what an abstract says about its sample: nothing; sizes below, at and
\* above 50; two sizes; a size with a separator or leading zeros
SampleParts ==
  { "", "50 patients", "51 participants", "49 subjects", "100patients",
    "12 arms and 100 patients", "30 patients, then 200 patients",
    "1,200 patients", "0051 subjects", "60 patient records" }

TextArticles ==
  { [abstract |-> PyStr(loss \o ". " \o phrase \o ". " \o sample \o ".")] :
      loss \in LossParts, phrase \in FollowUpParts, sample \in SampleParts }

TextInit ==
  /\ article \in TextArticles
  /\ calls = <<>>
  /\ exc = "none"
  /\ entry = "none"
  /\ batch = <<>>
  /\ pc = "idle"
  /\ idx = 0
  /\ classified = <<>>
  /\ assessed = <<>>
  /\ summary = <<>>
  /\ result = NoCall

\* _check_follow_up(text) as the checklists call it
CheckFollowUp ==
  /\ result = NoCall
  /\ LET text == _get_article_text(article)
     IN result' = [op |-> "_check_follow_up", args |-> <<text>>,
                   v |-> _check_follow_up(text)]
  /\ UNCHANGED <<unitVars, exc, batchVars>>

\* _check_sample_size(text) as the checklists call it
CheckSampleSize ==
  /\ result = NoCall
  /\ LET text == _get_article_text(article)
     IN result' = [op |-> "_check_sample_size", args |-> <<text>>,
                   v |-> _check_sample_size(text)]
  /\ UNCHANGED <<unitVars, exc, batchVars>>

TextNext == CheckFollowUp \/ CheckSampleSize

TextSpec == TextInit /\ [][TextNext]_vars

-----------------------------------------------------------------------------
(* classify_articles applied to a list of articles *)

SortInit ==
  /\ article = <<>>
  /\ calls = <<>>
  /\ exc = "none"
  /\ entry = "none"
  /\ batch \in SeqsUpTo(BatchArticles, MaxRanked)
  /\ pc = "idle"
  /\ idx = 0
  /\ classified = <<>>
  /\ assessed = <<>>
  /\ summary = <<>>
  /\ result = NoCall

\* one call of classify_articles: classify_article writes the level on the
\* articles of the list itself, up to the first one it raises for
ClassifyArticles ==
  /\ result = NoCall
  /\ LET r == classify_articles(batch)
         stop == FirstRaising(batch)
     IN /\ result' = [op |-> "classify_articles", args |-> <<batch>>, v |-> r]
        /\ exc' = IF IsRaise(r) THEN r.v ELSE exc
        /\ batch' = [k \in 1..Len(batch) |->
                       IF stop = 0 \/ k < stop
                       THEN classify_article(batch[k]).v
                       ELSE batch[k]]
  /\ UNCHANGED <<unitVars, entry, pc, idx, classified, assessed, summary>>

SortNext == ClassifyArticles

SortSpec == SortInit /\ [][SortNext]_vars

-----------------------------------------------------------------------------
(* Properties of classify_article and assess_article (specification Spec) *)

LastCall == IF calls = <<>> THEN "none" ELSE calls[Len(calls)]

\* the latest call was classify_article and it returned
JustClassified == LastCall = "classify_article" /\ exc = "none"

\* the latest call was assess_article and it returned
JustAssessed == LastCall = "assess_article" /\ exc = "none"

HasKey(a, key) == key \in DOMAIN a

\* the tags field is absent, one string, or a list of strings
WellFormedTags(a) ==
  \/ ~HasKey(a, "pubmedPublicationTypes")
  \/ a.pubmedPublicationTypes.t = "str"
  \/ /\ a.pubmedPublicationTypes.t = "list"
     /\ \A p \in 1..Len(a.pubmedPublicationTypes.v) :
          a.pubmedPublicationTypes.v[p].t = "str"

\* the tag strings of a record with well-formed tags
TagsOf(a) ==
  IF ~HasKey(a, "pubmedPublicationTypes") THEN <<>>
  ELSE IF a.pubmedPublicationTypes.t = "str"
       THEN <<a.pubmedPublicationTypes.v>>
       ELSE [p \in 1..Len(a.pubmedPublicationTypes.v) |->
               a.pubmedPublicationTypes.v[p].v]

\* the levels of a keyword table that have a keyword inside one of the texts
MatchLevels(table, texts) ==
  LET lowered == [p \in 1..Len(texts) |-> lower(texts[p])]
  IN { table[k][1] : k \in { n \in 1..Len(table) :
         \E j \in 1..Len(table[n][2]) :
           \E p \in 1..Len(lowered) : Contains(table[n][2][j], lowered[p]) } }

TagMatchLevels(a) == MatchLevels(PUBLICATION_TYPE_MAP, TagsOf(a))

TitleAndAbstract(a) ==
  Format(get(a, "title", PyStr(""))) \o " "
    \o Format(get(a, "abstract", PyStr("")))

TextMatchLevels(a) == MatchLevels(TEXT_KEYWORDS, <<TitleAndAbstract(a)>>)

Min(S) == CHOOSE x \in S : \A y \in S : x <= y

\* the record without its title and abstract
WithoutText(a) == delitem(delitem(a, "title"), "abstract")

\* C1: after classify_article on a record whose tags are absent, empty or
\* well formed, evidence_level is an integer in 1..6 and evidence_level_name
\* is the EVIDENCE_LEVELS entry of that level, whatever the record carried.
C1_LevelInRange ==
  (LastCall = "classify_article" /\ WellFormedTags(article)) =>
    /\ exc = "none"
    /\ HasKey(article, "evidence_level")
    /\ article.evidence_level.t = "int"
    /\ article.evidence_level.v \in 1..6
    /\ HasKey(article, "evidence_level_name")
    /\ article.evidence_level_name.t = "str"
    /\ article.evidence_level_name.v = EVIDENCE_LEVELS[article.evidence_level.v]

\* a record with no tags, no title and an empty abstract is classified level 6
C1_Witness ==
  /\ calls = <<"classify_article">>
  /\ exc = "none"
  /\ ~HasKey(article, "pubmedPublicationTypes")
  /\ ~HasKey(article, "title")
  /\ HasKey(article, "abstract") /\ article.abstract.t = "str"
  /\ article.abstract.v = ""
  /\ article.evidence_level = PyInt(6)
  /\ article.evidence_level_name = PyStr("Animal Research / In Vitro")

\* C2: classify_article never ends by raising, whatever the shape of the
\* tags, title and abstract fields.
C2_ClassifyNeverRaises ==
  LastCall = "classify_article" => exc = "none"

\* C3: assess_article never ends by raising: for every record and every
\* evidence_level value an assessment is stored, every criterion holds a
\* boolean, and with no title/abstract text no criterion is satisfied.
C3_AssessTotal ==
  LastCall = "assess_article" =>
    /\ exc = "none"
    /\ HasKey(article, "jbi_assessment")
    /\ LET assessment == article.jbi_assessment.v
       IN /\ assessment.criteria_total = Len(assessment.criteria)
          /\ \A k \in 1..Len(assessment.criteria) :
               assessment.criteria[k].present \in BOOLEAN
          /\ assessment.quality \in {"High", "Moderate", "Low"}
          /\ (TitleAndAbstract(article) \in {" ", "None ", " None", "None None"}) =>
               /\ \A k \in 1..Len(assessment.criteria) :
                    ~assessment.criteria[k].present
               /\ assessment.quality_percent = 0
               /\ assessment.quality = "Low"

\* a record with a null title, no abstract and no evidence_level is assessed
C3_Witness ==
  /\ calls = <<"assess_article">>
  /\ exc = "none"
  /\ HasKey(article, "title") /\ IsNone(article.title)
  /\ ~HasKey(article, "abstract")
  /\ ~HasKey(article, "evidence_level")
  /\ article.jbi_assessment.v.quality = "Low"

\* C5: a classify_article call on a record that an earlier classify_article
\* call has classified leaves evidence_level and evidence_level_name as they
\* are.
C5_Idempotent ==
  [][ ( /\ calls' = Append(calls, "classify_article")
        /\ \E k \in 1..Len(calls) : calls[k] = "classify_article"
        /\ exc' = "none" )
      => /\ HasKey(article, "evidence_level")
         /\ article'.evidence_level = article.evidence_level
         /\ article'.evidence_level_name = article.evidence_level_name ]_vars

\* a tagged record with a title of a weaker level, classified twice
C5_Witness ==
  /\ calls = <<"classify_article", "classify_article">>
  /\ exc = "none"
  /\ TagMatchLevels(article) = {1}
  /\ TextMatchLevels(article) = {5}
  /\ article.evidence_level = PyInt(1)

\* C6: when some tag contains a keyword of PUBLICATION_TYPE_MAP, the level
\* is the smallest level that has a keyword inside any tag, in whichever
\* order the tags come.
C6_TagFirstMatch ==
  JustClassified =>
    LET levels == TagMatchLevels(article)
    IN levels # {} => article.evidence_level = PyInt(Min(levels))

\* the level-2 tag comes before the level-1 tag, the level is 1
C6_Witness ==
  /\ JustClassified
  /\ TagsOf(article) = <<"Controlled Clinical Trial", "Meta-Analysis">>
  /\ article.evidence_level = PyInt(1)

\* C7: when a tag matches, the level is the one the record gets without its
\* title and abstract; the text decides only when no tag matches.
C7_TierPrecedence ==
  JustClassified =>
    IF TagMatchLevels(article) # {}
    THEN article.evidence_level
           = classify_article(WithoutText(article)).v.evidence_level
    ELSE article.evidence_level
           = classify_article(delitem(article, "pubmedPublicationTypes")).v.evidence_level

\* a level-2 tag with a level-1 keyword in the title: the level is 2
C7_Witness ==
  /\ JustClassified
  /\ TagMatchLevels(article) = {2}
  /\ 1 \in TextMatchLevels(article)
  /\ article.evidence_level = PyInt(2)

\* C8: when no tag matches and the lower-cased title and abstract contain a
\* keyword of a text keyword set, the level is the smallest level with a hit.
C8_TextFirstMatch ==
  (JustClassified /\ TagMatchLevels(article) = {}) =>
    LET levels == TextMatchLevels(article)
    IN levels # {} => article.evidence_level = PyInt(Min(levels))

\* "retrospective cohort" hits the levels 3 and 4, "single case" level 5
C8_Witness ==
  /\ JustClassified
  /\ TagMatchLevels(article) = {}
  /\ TextMatchLevels(article) = {3, 4, 5}
  /\ article.evidence_level = PyInt(3)

\* C9: when no tag matches and no text keyword of the six sets occurs, the
\* level is 2 if the text contains "clinical trial" and 6 otherwise; when a
\* text keyword occurs, "clinical trial" in the text changes nothing.
C9_Fallback ==
  (JustClassified /\ TagMatchLevels(article) = {}) =>
    LET trial == Contains("clinical trial", lower(TitleAndAbstract(article)))
        levels == TextMatchLevels(article)
    IN IF levels = {}
       THEN article.evidence_level = PyInt(IF trial THEN 2 ELSE 6)
       ELSE trial => article.evidence_level = PyInt(Min(levels))

\* only "clinical trial" in the text, no tags: level 2
C9_Witness ==
  /\ JustClassified
  /\ TagMatchLevels(article) = {}
  /\ TextMatchLevels(article) = {}
  /\ Contains("clinical trial", lower(TitleAndAbstract(article)))
  /\ article.evidence_level = PyInt(2)

\* the checklist an assessment was made with, by its first criterion
ChecklistOf(assessment) ==
  CASE assessment.criteria[1].name = "question_defined" -> "systematic review"
    [] assessment.criteria[1].name = "randomization" -> "rct"
    [] assessment.criteria[1].name = "representative" -> "cohort"
    [] assessment.criteria[1].name = "cases_defined" -> "case-control"
    [] assessment.criteria[1].name = "design_appropriate" -> "generic"

\* C10: assess_article applies the systematic-review checklist for level 1,
\* the RCT checklist for level 2, the cohort checklist for level 3, the
\* case-control checklist for level 4, and the generic checklist for any
\* other value and for a record without a level.
C10_Dispatch ==
  JustAssessed =>
    ChecklistOf(article.jbi_assessment.v) =
      IF ~HasKey(article, "evidence_level") THEN "generic"
      ELSE IF PyEq(article.evidence_level, 1) THEN "systematic review"
      ELSE IF PyEq(article.evidence_level, 2) THEN "rct"
      ELSE IF PyEq(article.evidence_level, 3) THEN "cohort"
      ELSE IF PyEq(article.evidence_level, 4) THEN "case-control"
      ELSE "generic"

\* classify_article and then assess_article were called and both returned
ClassifiedThenAssessed ==
  calls = <<"classify_article", "assess_article">> /\ exc = "none"

\* the fields a record came with
AsDelivered(a) ==
  delitem(delitem(delitem(a, "evidence_level"), "evidence_level_name"),
          "jbi_assessment")

\* the assessment a record ends with after classify_article, assess_article
AssessmentOf(a) ==
  assess_article(classify_article(AsDelivered(a)).v).v.jbi_assessment.v

IsScenarioA(a) ==
  /\ HasKey(a, "pubmedPublicationTypes")
  /\ a.pubmedPublicationTypes = PyList(<<PyStr("Randomized Controlled Trial")>>)
  /\ HasKey(a, "abstract")
  /\ \A k \in {"double-blind", "intention-to-treat",
                "adjusted for confounders", "p < 0.01"} :
       Contains(k, lower(a.abstract.v))

\* the otherwise identical record whose abstract lacks the phrases
LackingPhrases(a) ==
  LET text == a.abstract.v
      n == Len(text) - Len(ScenarioPhrases)
  IN [AsDelivered(a) EXCEPT
        !.abstract = PyStr(IF n <= 0 THEN "" ELSE SubSeq(text, 1, n - 1))]

\* the three blinding criteria and the intention-to-treat criterion of the
\* RCT checklist are all met
BlindingAndIttMet(assessment) ==
  \A k \in 1..Len(assessment.criteria) :
    assessment.criteria[k].name \in
        {"blinding_participants", "blinding_personnel", "blinding_outcome",
         "intention_to_treat"}
      => assessment.criteria[k].present

\* C13 as stated: an article tagged "Randomized Controlled Trial" whose
\* abstract contains the four phrases gets level 2 and the RCT checklist, and
\* a quality_percent strictly greater than that of the otherwise identical
\* article whose abstract lacks the phrases.
C13_ScenarioA ==
  (ClassifiedThenAssessed /\ IsScenarioA(article)) =>
    /\ article.evidence_level = PyInt(2)
    /\ ChecklistOf(article.jbi_assessment.v) = "rct"
    /\ article.jbi_assessment.v.quality_percent
         > AssessmentOf(LackingPhrases(article)).quality_percent

\* C13 amended: level 2 and the RCT checklist; the quality_percent is never
\* below that of the article lacking the phrases, and strictly greater
\* unless that article already meets the three blinding criteria and the
\* intention-to-treat criterion by other wording.
C13_ScenarioA_Amended ==
  (ClassifiedThenAssessed /\ IsScenarioA(article)) =>
    LET other == AssessmentOf(LackingPhrases(article))
        mine == article.jbi_assessment.v
    IN /\ article.evidence_level = PyInt(2)
       /\ ChecklistOf(mine) = "rct"
       /\ ChecklistOf(other) = "rct"
       /\ mine.quality_percent >= other.quality_percent
       /\ ~BlindingAndIttMet(other) =>
            mine.quality_percent > other.quality_percent
       /\ BlindingAndIttMet(other) =>
            mine.quality_percent = other.quality_percent

\* the abstract is just the four phrases: 30 of 110 points against none
C13_Witness ==
  /\ ClassifiedThenAssessed
  /\ IsScenarioA(article)
  /\ article.abstract = PyStr(ScenarioPhrases)
  /\ article.jbi_assessment.v.quality_percent = 27
  /\ AssessmentOf(LackingPhrases(article)).quality_percent = 0

\* no tags, an empty abstract, and a title without a classification keyword
IsScenarioB(a) ==
  /\ ~HasKey(a, "pubmedPublicationTypes")
  /\ HasKey(a, "abstract") => a.abstract = PyStr("")
  /\ TextMatchLevels(a) = {}
  /\ ~Contains("clinical trial", lower(TitleAndAbstract(a)))

\* the words and numbers the generic checklist looks for
AppraisalSignals ==
  << "study", "design", "method", "objective", "validated", "standardized",
     "reliable", "confound", "adjusted", "controlled", "complete follow-up",
     "followed up", "no loss to follow", "p value", "p-value",
     "statistically significant", "confidence interval", "odds ratio",
     "relative risk", "hazard ratio", "regression", "anova", "t-test" >>

\* the text of the record has none of them
NoAppraisalSignal(a) ==
  LET text == lower(TitleAndAbstract(a))
  IN /\ \A k \in 1..Len(AppraisalSignals) : ~Contains(AppraisalSignals[k], text)
     /\ \A i \in 1..Len(text) : ~IsDigit(CharAt(text, i))

\* C14 as stated: an article with an empty abstract, no tags and a title
\* that matches no classification keyword gets level 6 and the generic
\* checklist, and ends with a quality_percent near 0 (at least below the
\* Moderate threshold) and the band Low.
C14_ScenarioB ==
  (ClassifiedThenAssessed /\ IsScenarioB(article)) =>
    /\ article.evidence_level = PyInt(6)
    /\ ChecklistOf(article.jbi_assessment.v) = "generic"
    /\ article.jbi_assessment.v.quality_percent < QUALITY_THRESHOLDS.moderate
    /\ article.jbi_assessment.v.quality = "Low"

\* C14 amended: such an article gets level 6 and the generic checklist;
\* when its title also has none of the words and numbers the generic
\* checklist looks for, quality_percent is 0 and the band is Low.
C14_ScenarioB_Amended ==
  (ClassifiedThenAssessed /\ IsScenarioB(article)) =>
    /\ article.evidence_level = PyInt(6)
    /\ ChecklistOf(article.jbi_assessment.v) = "generic"
    /\ NoAppraisalSignal(article) =>
         /\ article.jbi_assessment.v.quality_percent = 0
         /\ article.jbi_assessment.v.quality = "Low"

\* a title that says nothing about the study
C14_Witness ==
  /\ ClassifiedThenAssessed
  /\ IsScenarioB(article)
  /\ HasKey(article, "title")
  /\ article.title = PyStr("Editorial Note")
  /\ NoAppraisalSignal(article)
  /\ article.evidence_level = PyInt(6)
  /\ article.jbi_assessment.v.quality = "Low"

-----------------------------------------------------------------------------
(* Properties of the batch run (specification BatchSpec) *)

\* C4: a record whose classification or assessment fails does not stop the
\* batch: the run never aborts, and at the end every record of the batch
\* carries an assessment and is counted in the summary.
C4_PerArticleIsolation ==
  /\ pc # "raised"
  /\ pc = "done" =>
       /\ \A k \in 1..Len(batch) : HasKey(batch[k], "jbi_assessment")
       /\ summary.total_articles = Len(batch)

-----------------------------------------------------------------------------
(* Properties of the scoring (specification ScoreSpec) *)

JustScored == result.op = "_calculate_score"

\* the weights of the criteria at the positions that satisfy the test
RECURSIVE WeightSum(_, _)
WeightSum(criteria, onlyPresent) ==
  IF criteria = <<>> THEN 0
  ELSE (IF onlyPresent /\ ~criteria[1].present THEN 0 ELSE criteria[1].points)
       + WeightSum(Tail(criteria), onlyPresent)

\* C11: for every checklist and every set of satisfied criteria the stored
\* quality_percent is floor(100 * earned weight / total weight), a number
\* in 0..100, also for the RCT checklist whose weights sum to 110
C11_PercentIsFloor ==
  JustScored =>
    LET criteria == result.args[1]
        earned == WeightSum(criteria, TRUE)
        possible == WeightSum(criteria, FALSE)
    IN /\ result.v.quality_percent = (100 * earned) \div possible
       /\ result.v.quality_percent \in 0..100
       /\ result.v.total_score = result.v.quality_percent

\* the RCT checklist (weights summing to 110) with 65 points earned:
\* 59.09... is stored as 59
C11_Witness ==
  /\ JustScored
  /\ WeightSum(result.args[1], FALSE) = 110
  /\ WeightSum(result.args[1], TRUE) = 65
  /\ result.v.quality_percent = 59

\* C12: the quality band follows from quality_percent alone: High from 80
\* up, Moderate from 60 to 79, Low below 60, whichever checklist scored
C12_BandFromPercent ==
  /\ JustScored =>
       /\ result.v.quality = "High" <=> result.v.quality_percent >= 80
       /\ result.v.quality = "Moderate" <=>
             (result.v.quality_percent >= 60 /\ result.v.quality_percent < 80)
       /\ result.v.quality = "Low" <=> result.v.quality_percent < 60
  /\ _get_quality_rating(80) = "High"
  /\ _get_quality_rating(79) = "Moderate"
  /\ _get_quality_rating(60) = "Moderate"
  /\ _get_quality_rating(59) = "Low"
  /\ _get_quality_rating(0) = "Low"

\* a score exactly on the High threshold
C12_Witness ==
  /\ JustScored
  /\ result.v.quality_percent = 80
  /\ result.v.quality = "High"

-----------------------------------------------------------------------------
(* Properties of the aggregation (specification RankSpec) *)

\* the level of a record, 6 when it carries none
LevelOf(a) == IF HasKey(a, "evidence_level") THEN a.evidence_level.v ELSE 6

\* the quality_percent of a record, 0 when it carries no assessment
PercentOf(a) ==
  IF HasKey(a, "jbi_assessment") THEN a.jbi_assessment.v.quality_percent ELSE 0

IsAssessed(a) == HasKey(a, "evidence_level") /\ HasKey(a, "jbi_assessment")

\* how often x occurs in the list
Count(list, x) == Cardinality({k \in 1..Len(list) : list[k] = x})

\* x can be got from y by leaving elements out
RECURSIVE IsSubsequence(_, _)
IsSubsequence(x, y) ==
  IF x = <<>> THEN TRUE
  ELSE IF y = <<>> THEN FALSE
  ELSE IF Head(x) = Head(y) THEN IsSubsequence(Tail(x), Tail(y))
  ELSE IsSubsequence(x, Tail(y))

\* the articles of the list with the given level and quality_percent
WithKey(list, level, percent) ==
  LET Same(a) == LevelOf(a) = level /\ PercentOf(a) = percent
  IN SelectSeq(list, Same)

\* x ranks strictly before y: lower level, or equal level and higher score
RanksBefore(x, y) ==
  \/ LevelOf(x) < LevelOf(y)
  \/ LevelOf(x) = LevelOf(y) /\ PercentOf(x) > PercentOf(y)

GotTopEvidence == result.op = "_get_top_evidence"

\* C15: in the list _get_top_evidence returns, an article of a lower level
\* number stands before every article of a higher level number, whatever
\* their quality_percent.
C15_LevelFirst ==
  GotTopEvidence =>
    \A i \in 1..Len(result.v) : \A j \in 1..Len(result.v) :
      LevelOf(result.v[i]) < LevelOf(result.v[j]) => i < j

\* a level 2 article with 90 percent came before a level 1 article with 80
\* percent and is returned behind it
C15_Witness ==
  /\ GotTopEvidence
  /\ Len(result.args[1]) = 2
  /\ LevelOf(result.args[1][1]) = 2 /\ PercentOf(result.args[1][1]) = 90
  /\ LevelOf(result.args[1][2]) = 1 /\ PercentOf(result.args[1][2]) = 80
  /\ result.v = <<result.args[1][2], result.args[1][1]>>

\* C16: among returned articles of equal level the higher quality_percent
\* stands first, and articles equal in level and quality_percent keep the
\* relative order they had in the input.
C16_QualityThenStable ==
  GotTopEvidence =>
    /\ \A i \in 1..Len(result.v) : \A j \in 1..Len(result.v) :
         (/\ LevelOf(result.v[i]) = LevelOf(result.v[j])
          /\ PercentOf(result.v[i]) > PercentOf(result.v[j])) => i < j
    /\ \A k \in 1..Len(result.v) :
         IsSubsequence(
           WithKey(result.v, LevelOf(result.v[k]), PercentOf(result.v[k])),
           WithKey(result.args[1], LevelOf(result.v[k]), PercentOf(result.v[k])))

\* equal level: the higher score came later and is returned first; equal
\* keys: two different articles are returned in their input order
C16_Witness ==
  /\ GotTopEvidence
  /\ \E p \in 1..Len(result.args[1]) : \E q \in 1..Len(result.args[1]) :
       /\ p < q
       /\ LevelOf(result.args[1][p]) = LevelOf(result.args[1][q])
       /\ PercentOf(result.args[1][p]) < PercentOf(result.args[1][q])
       /\ \E i \in 1..Len(result.v) : \E j \in 1..Len(result.v) :
            i < j /\ result.v[i] = result.args[1][q]
                  /\ result.v[j] = result.args[1][p]
  /\ \E i \in 1..Len(result.v) : \E j \in 1..Len(result.v) :
       /\ i < j
       /\ result.v[i] # result.v[j]
       /\ LevelOf(result.v[i]) = LevelOf(result.v[j])
       /\ PercentOf(result.v[i]) = PercentOf(result.v[j])

\* C17: _get_top_evidence(articles, N) returns min(N, |articles|) articles
\* (N is 10 when _generate_summary calls it), each of them an article of the
\* input and none more often than the input has it, and no article left
\* out ranks strictly before an article that was returned.
C17_TopN ==
  /\ GotTopEvidence =>
       LET articles == result.args[1]
           max_articles == result.args[2]
       IN /\ Len(result.v) = IF max_articles < Len(articles)
                             THEN max_articles ELSE Len(articles)
          /\ \A k \in 1..Len(result.v) :
               /\ Count(articles, result.v[k]) >= 1
               /\ Count(result.v, result.v[k]) <= Count(articles, result.v[k])
          /\ \A p \in 1..Len(articles) :
               Count(result.v, articles[p]) < Count(articles, articles[p])
                 => \A k \in 1..Len(result.v) :
                      ~RanksBefore(articles[p], result.v[k])
  /\ result.op = "_generate_summary" =>
       Len(result.v.top_studies) =
         IF 10 < Len(result.args[1]) THEN 10 ELSE Len(result.args[1])

\* twelve articles, the ten best are returned
C17_Witness ==
  /\ GotTopEvidence
  /\ Len(result.args[1]) = 12
  /\ result.args[2] = 10
  /\ Len(result.v) = 10
  /\ \E p \in 1..12 : Count(result.v, result.args[1][p]) = 0

\* how many articles of the list have the level
LevelCount(list, level) ==
  Cardinality({k \in 1..Len(list) : LevelOf(list[k]) = level})

\* C18: level_counts of _generate_summary maps each level to the number of
\* articles of that level in the whole batch (a record without a level
\* counts as level 6), has no entry for a level without articles, and its
\* counts sum to total_articles; the 12-article batch with levels
\* {1:2, 2:5, 3:3, 6:2} reports exactly those four counts.
C18_LevelCounts ==
  result.op = "_generate_summary" =>
    LET articles == result.args[1]
        level_counts == result.v.level_counts
    IN /\ DOMAIN level_counts =
            {PyInt(level) : level \in {n \in 1..6 : LevelCount(articles, n) > 0}}
       /\ \A key \in DOMAIN level_counts :
            level_counts[key] = LevelCount(articles, key.v)
       /\ result.v.total_articles = Len(articles)
       /\ Len(articles) =
            LevelCount(articles, 1) + LevelCount(articles, 2)
              + LevelCount(articles, 3) + LevelCount(articles, 4)
              + LevelCount(articles, 5) + LevelCount(articles, 6)
       /\ articles = ScenarioCBatch =>
            level_counts = (PyInt(1) :> 2) @@ (PyInt(2) :> 5)
                             @@ (PyInt(3) :> 3) @@ (PyInt(6) :> 2)
       /\ summary = result.v

\* the summary of the 12-article batch: four counts, over all twelve
\* articles although only ten are among the top studies
C18_Witness ==
  /\ result.op = "_generate_summary"
  /\ result.args[1] = ScenarioCBatch
  /\ DOMAIN result.v.level_counts = {PyInt(1), PyInt(2), PyInt(3), PyInt(6)}
  /\ result.v.level_counts[PyInt(2)] = 5
  /\ result.v.total_articles = 12
  /\ Len(result.v.top_studies) = 10

\* how many articles of the list have the quality band
BandCount(list, band) ==
  Cardinality({k \in 1..Len(list) :
                 HasKey(list[k], "jbi_assessment")
                   /\ list[k].jbi_assessment.v.quality = band})

RECURSIVE SumOfPercents(_)
SumOfPercents(list) ==
  IF list = <<>> THEN 0 ELSE PercentOf(list[1]) + SumOfPercents(Tail(list))

\* C19: for a list of assessed articles _calculate_quality_summary reports
\* the number of articles of each band, the three counts sum to the size of
\* the list, and average_score is the mean of the quality_percent values
\* rounded to one decimal place (a one-decimal number nearest to the mean);
\* for the empty list the counts and the mean are 0.
C19_QualitySummary ==
  (/\ result.op = "_calculate_quality_summary"
   /\ \A k \in 1..Len(result.args[1]) : IsAssessed(result.args[1][k])) =>
    LET articles == result.args[1]
        tenths == result.v.average_score.tenths
    IN /\ result.v.high_quality = BandCount(articles, "High")
       /\ result.v.moderate_quality = BandCount(articles, "Moderate")
       /\ result.v.low_quality = BandCount(articles, "Low")
       /\ result.v.high_quality + result.v.moderate_quality
            + result.v.low_quality = Len(articles)
       /\ articles # <<>> =>
            /\ 2 * (tenths * Len(articles) - 10 * SumOfPercents(articles))
                 <= Len(articles)
            /\ 2 * (10 * SumOfPercents(articles) - tenths * Len(articles))
                 <= Len(articles)
       /\ articles = <<>> =>
            /\ tenths = 0
            /\ result.v.high_quality = 0
            /\ result.v.moderate_quality = 0
            /\ result.v.low_quality = 0

\* three assessed articles with 80, 90 and 63 percent: two High, one
\* Moderate, mean 77.666... reported as 77.7
C19_Witness ==
  /\ result.op = "_calculate_quality_summary"
  /\ Len(result.args[1]) = 3
  /\ \A k \in 1..3 : IsAssessed(result.args[1][k])
  /\ SumOfPercents(result.args[1]) = 233
  /\ result.v.high_quality = 2
  /\ result.v.moderate_quality = 1
  /\ result.v.average_score.tenths = 777

\* C20: filter_by_level(articles, min, max) returns the articles whose
\* level (6 for a record without one) lies in min..max, both bounds
\* included, in their original order, and no others; with 1 and 2 it is the
\* subsequence of the articles of level 1 or 2.
C20_FilterByLevel ==
  result.op = "filter_by_level" =>
    LET articles == result.args[1]
        min_level == result.args[2]
        max_level == result.args[3]
        inside == {k \in 1..Len(articles) :
                     /\ min_level <= LevelOf(articles[k])
                     /\ LevelOf(articles[k]) <= max_level}
    IN /\ IsSubsequence(result.v, articles)
       /\ \A k \in 1..Len(result.v) :
            /\ min_level <= LevelOf(result.v[k])
            /\ LevelOf(result.v[k]) <= max_level
       /\ Len(result.v) = Cardinality(inside)
       /\ \A k \in inside :
            Count(result.v, articles[k]) = Count(articles, articles[k])

\* levels 2, 6, 1 filtered with 1 and 2: the first and the third are
\* returned, in that order
C20_Witness ==
  /\ result.op = "filter_by_level"
  /\ result.args[2] = 1 /\ result.args[3] = 2
  /\ Len(result.args[1]) = 3
  /\ LevelOf(result.args[1][1]) = 2
  /\ LevelOf(result.args[1][2]) = 6
  /\ LevelOf(result.args[1][3]) = 1
  /\ result.v = <<result.args[1][1], result.args[1][3]>>

-----------------------------------------------------------------------------
(* Properties of _extract_key_findings (specification FindingsSpec) *)

\* _extract_key_findings has returned a list
ExtractedFindings ==
  result.op = "_extract_key_findings" /\ ~IsRaise(result.v)

\* the matches of pattern p in the abstract of article a, stripped
StrippedMatches(a, p) ==
  LET abstract == get(a, "abstract", PyStr("")).v
      matches == finditer(p, abstract, lower(abstract), 1)
  IN [m \in 1..Len(matches) |-> strip(matches[m])]

\* the articles _extract_key_findings reads: the first ten of its list
ReadArticles(articles) == 1..Min({MaxFindingArticles, Len(articles)})

\* C21: in the list _extract_key_findings returns, every finding of the
\* first pattern (efficacy and significance keywords), of whichever article,
\* stands before every finding of the second pattern (statistic symbols), of
\* whichever article.
C21_PassOrder ==
  ExtractedFindings =>
    \A x, y \in 1..Len(result.v.v) :
      (result.findings[x].pattern = 1 /\ result.findings[y].pattern = 2)
        => x < y

\* C22: a match of a pattern is kept as a finding if and only if its
\* stripped length lies in the closed range 20..200; matches of length
\* exactly 20 and exactly 200 are kept.
C22_LengthFilter ==
  ExtractedFindings =>
    \A k \in ReadArticles(result.args[1]), p \in {1, 2} :
      LET a == result.args[1][k]
          found == StrippedMatches(a, p)
      IN \A m \in 1..Len(found) :
           (\E x \in 1..Len(result.findings) :
              result.findings[x] =
                [article |-> k, pattern |-> p, finding |-> found[m],
                 text |-> FormatFinding(a, found[m])])
             <=> (Len(found[m]) >= 20 /\ Len(found[m]) <= 200)

\* C23: _extract_key_findings returns at most 20 findings, they are the
\* first 20 of the accumulated list in its order, and each of them is a
\* match in the abstract of one of the first 10 articles of the list.
C23_FindingBounds ==
  ExtractedFindings =>
    LET articles == result.args[1]
        returned == result.v.v
    IN /\ Len(returned) <= 20
       /\ Len(returned) = Min({20, Len(result.findings)})
       /\ \A x \in 1..Len(returned) : returned[x] = result.findings[x].text
       /\ \A x \in 1..Len(returned) :
            \E k \in ReadArticles(articles), p \in {1, 2} :
              LET found == StrippedMatches(articles[k], p)
              IN \E m \in 1..Len(found) :
                   returned[x] = FormatFinding(articles[k], found[m])

\* eleven articles, the first ten with thirty findings between them: twenty
\* are returned
C23_Witness ==
  /\ ExtractedFindings
  /\ result.args[1] = ScenarioCapBatch
  /\ Len(result.findings) = 30
  /\ Len(result.v.v) = 20

-----------------------------------------------------------------------------
(* Properties of the batch run (specification BatchSpec) *)

\* the identity sequence of the batch: position i holds i
InputOrder == [i \in 1..Len(batch) |-> i]

\* the elements of a list
Elements(list) == {list[i] : i \in 1..Len(list)}

\* how far the article at position k has come: 0 unclassified, 1 leveled,
\* 2 assessed, 3 ranked and reported in the summary
Stage(k) ==
  IF pc = "done" THEN 3
  ELSE IF k \in Elements(assessed) THEN 2
  ELSE IF k \in Elements(classified) THEN 1
  ELSE 0

\* the derived fields taken off an article again
SourceFields(a) ==
  [key \in (DOMAIN a) \ {"evidence_level", "evidence_level_name",
                         "jbi_assessment"} |-> a[key]]

\* no article is assessed before it is classified, and a summary exists only
\* when every article of the batch is classified and assessed
JoinBarrier ==
  /\ \A k \in Elements(assessed) :
       /\ k \in Elements(classified)
       /\ HasKey(batch[k], "evidence_level")
       /\ HasKey(batch[k], "jbi_assessment")
  /\ \A k \in Elements(classified) : HasKey(batch[k], "evidence_level")
  /\ (summary # <<>> \/ pc = "done") =>
       /\ pc = "done"
       /\ Elements(classified) = 1..Len(batch)
       /\ Elements(assessed) = 1..Len(batch)
       /\ summary.total_articles = Len(batch)

\* every step leaves each article where it is or moves it one stage on
ForwardOnly ==
  \A k \in 1..Len(batch) :
    Stage(k)' = Stage(k) \/ Stage(k)' = Stage(k) + 1

\* C24: in every batch run each article moves forward only, Unclassified ->
\* Leveled -> Assessed -> Ranked/Reported; no article is assessed before it
\* has been classified; the summary is computed only after every article of
\* the batch has been classified and assessed.
C24_JoinBarrier == [](JoinBarrier) /\ [][ForwardOnly]_vars

\* a run over two articles that has produced its summary
C24_Witness ==
  /\ pc = "done"
  /\ Len(batch) = 2
  /\ summary.total_articles = 2
  /\ summary.level_counts # <<>>

\* C25: the lists _classify_articles and _assess_articles return are as
\* long as the input and hold at index i the result for input article i, so
\* that the list handed to the sort is in input order.
C25_IndexStable ==
  /\ pc \in {"classify", "assess", "done"} =>
       classified = SubSeq(InputOrder, 1, Len(classified))
  /\ pc \in {"assess", "done"} =>
       /\ classified = InputOrder
       /\ assessed = SubSeq(InputOrder, 1, Len(assessed))
       /\ \A i \in 1..Len(batch) :
            LET r == classify_article(SourceFields(batch[i])).v
            IN /\ batch[i].evidence_level = r.evidence_level
               /\ batch[i].evidence_level_name = r.evidence_level_name
  /\ pc = "done" =>
       /\ assessed = InputOrder
       /\ \A i \in 1..Len(batch) :
            batch[i] =
              assess_article(classify_article(SourceFields(batch[i])).v).v
       /\ summary.top_studies =
            _get_top_evidence(batch, DefaultMaxArticles)

\* a finished run over two different articles of the same level: the
\* order of the input decides their rank
C25_Witness ==
  /\ pc = "done"
  /\ Len(batch) = 2
  /\ batch[1] # batch[2]
  /\ batch[1].evidence_level = batch[2].evidence_level
  /\ summary.top_studies = batch

\* the fields a step of the run may set on an article
DerivedBy(position) ==
  CASE position = "classify" -> {"evidence_level", "evidence_level_name"}
    [] position = "assess" -> {"jbi_assessment"}
    [] OTHER -> {}

\* a step changes no field of an article but those of DerivedBy, removes
\* none, and keeps the list in its order
FrameOfStep ==
  /\ Len(batch') = Len(batch)
  /\ \A k \in 1..Len(batch) :
       /\ DOMAIN batch[k] \subseteq DOMAIN batch'[k]
       /\ (DOMAIN batch'[k]) \ (DOMAIN batch[k]) \subseteq DerivedBy(pc)
       /\ \A key \in (DOMAIN batch[k]) \ DerivedBy(pc) :
            batch'[k][key] = batch[k][key]
  /\ (pc = "assess" /\ pc' \in {"done", "raised"}) => batch' = batch

\* C26: classify_article changes nothing on the article but evidence_level
\* and evidence_level_name; assess_article changes nothing but
\* jbi_assessment and leaves evidence_level and the source fields as they
\* are; _generate_summary changes no field of an article and does not
\* reorder the list it is given.
C26_Frame == [][FrameOfStep]_vars

\* a finished run whose first article has kept its source fields and
\* carries the three derived ones
C26_Witness ==
  /\ pc = "done"
  /\ Len(batch) >= 1
  /\ HasKey(batch[1], "title")
  /\ HasKey(batch[1], "abstract")
  /\ HasKey(batch[1], "evidence_level")
  /\ HasKey(batch[1], "jbi_assessment")
  /\ SourceFields(batch[1]) \in BatchArticles

-----------------------------------------------------------------------------
(* Properties of the text predicates (specification TextSpec) *)

\* the number that starts at position i of the text
NumberAt(text, i) == ParseInt(SubSeq(text, i, DigitsEnd(text, i) - 1), 0)

\* the positions at which "loss to follow-up" with a number begins
LossFigures(text) == {i \in 1..Len(text) : LossMatchesAt(text, i)}

\* the number of the first loss to follow-up figure of the text
FirstLoss(text) == NumberAt(text, LossGroupStart(text, Min(LossFigures(text))))

\* the text holds one of the phrases for a complete follow-up
HasFollowUpPhrase(text) ==
  \/ Contains("complete follow-up", text)
  \/ Contains("followed up", text)
  \/ Contains("no loss to follow", text)

\* C27: _check_follow_up(text) is true if and only if the first loss to
\* follow-up number N of the text is below 20 or the text holds one of the
\* phrases for a complete follow-up; a text with only a figure of 20 or more
\* gives false, and so does a text with neither figure nor phrase.
C27_FollowUp ==
  result.op = "_check_follow_up" =>
    LET text == result.args[1]
        figure == LossFigures(text) # {}
    IN /\ result.v <=> \/ figure /\ FirstLoss(text) < 20
                       \/ HasFollowUpPhrase(text)
       /\ (figure /\ FirstLoss(text) >= 20 /\ ~HasFollowUpPhrase(text))
            => ~result.v
       /\ (~figure /\ ~HasFollowUpPhrase(text)) => ~result.v

\* a loss of exactly 20 and no phrase: the predicate is false
C27_Witness ==
  /\ result.op = "_check_follow_up"
  /\ LossFigures(result.args[1]) # {}
  /\ FirstLoss(result.args[1]) = 20
  /\ ~HasFollowUpPhrase(result.args[1])
  /\ ~result.v

\* the positions at which a number followed by participants, patients or
\* subjects begins
SampleFigures(text) == {i \in 1..Len(text) : SampleMatchesAt(text, i)}

\* C28: _check_sample_size(text) is true if and only if the text holds a
\* number followed by participants, patients or subjects and the number of
\* the leftmost such place is above 50; 50 gives false, and so does a text
\* without such a place.
C28_SampleSize ==
  result.op = "_check_sample_size" =>
    LET text == result.args[1]
        figures == SampleFigures(text)
    IN /\ result.v <=> /\ figures # {}
                       /\ NumberAt(text, Min(figures)) > 50
       /\ (figures # {} /\ NumberAt(text, Min(figures)) = 50) => ~result.v
       /\ figures = {} => ~result.v

\* a sample of exactly 50: the predicate is false
C28_Witness ==
  /\ result.op = "_check_sample_size"
  /\ SampleFigures(result.args[1]) # {}
  /\ NumberAt(result.args[1], Min(SampleFigures(result.args[1]))) = 50
  /\ ~result.v

-----------------------------------------------------------------------------
(* The level of an article without evidence_level (specification Spec) *)

\* the levels for which assess_article chooses the checklist this
\* assessment was made with
AssumedLevels(assessment) ==
  {level \in 1..6 :
     Checklists[ChecklistFor(level)][1].name = assessment.criteria[1].name}

\* C29: an article without an evidence_level field is treated as one and
\* the same level everywhere: the level assess_article assumes when it
\* chooses the checklist is the level under which level_counts counts the
\* article, _get_top_evidence ranks it and filter_by_level selects it, the
\* unknown level 6.
C29_ConsistentDefault ==
  (JustAssessed /\ ~HasKey(article, "evidence_level")) =>
    \E level \in AssumedLevels(article.jbi_assessment.v) :
      /\ level = 6
      /\ DOMAIN LevelCounts(<<article>>, 1, <<>>) = {PyInt(level)}
      /\ SortKey(article)[1] = level
      /\ filter_by_level(<<article>>, level, level) = <<article>>

-----------------------------------------------------------------------------
(* Properties of classify_articles (specification SortSpec) *)

\* the articles of the list that carry the given level, in list order
OfLevel(list, level) ==
  LET HasLevel(a) == LevelOf(a) = level
  IN SelectSeq(list, HasLevel)

\* C30: classify_articles returns a permutation of its input in which every
\* article is classified, the levels do not decrease along the list, and
\* articles of equal level keep the order they had in the input.
C30_ClassifyArticles ==
  (result.op = "classify_articles" /\ ~IsRaise(result.v)) =>
    LET input == result.args[1]
        returned == result.v.v
    IN /\ Len(returned) = Len(input)
       /\ \A k \in 1..Len(input) :
            /\ SourceFields(batch[k]) = SourceFields(input[k])
            /\ Count(returned, batch[k]) = Count(batch, batch[k])
       /\ \A k \in 1..Len(returned) :
            /\ HasKey(returned[k], "evidence_level")
            /\ returned[k].evidence_level.v \in 1..6
            /\ returned[k].evidence_level_name
                 = PyStr(EVIDENCE_LEVELS[returned[k].evidence_level.v])
       /\ \A k \in 1..(Len(returned) - 1) :
            LevelOf(returned[k]) <= LevelOf(returned[k + 1])
       /\ \A level \in 1..6 : OfLevel(returned, level) = OfLevel(batch, level)

\* three articles given in the order unknown, review, unknown: the review
\* comes first and the two articles of unknown design keep their order
C30_Witness ==
  /\ result.op = "classify_articles"
  /\ ~IsRaise(result.v)
  /\ Len(batch) = 3
  /\ LevelOf(batch[1]) = 6
  /\ LevelOf(batch[2]) = 1
  /\ LevelOf(batch[3]) = 6
  /\ batch[1] # batch[3]
  /\ result.v.v = <<batch[2], batch[1], batch[3]>>

====
